---------------------------- MODULE Spec2Model ----------------------------
(***************************************************************************)
(* Order allocation and fulfilment engine of the order management system: *)
(* pricing with volume discounts, warehouse ranking, locked inventory     *)
(* read, greedy allocation, shipping validation and the transactional     *)
(* decrement + audit log + order insert (createWalkInOrder), and the      *)
(* read-only dry run of the same pipeline (checkFeasibility).             *)
(*                                                                         *)
(* Database model: the tables hold committed rows.  A transaction keeps   *)
(* its uncommitted writes in tx* variables, holds row locks on inventory  *)
(* rows (SELECT ... FOR UPDATE, and the row lock an UPDATE takes) until   *)
(* it ends, and either applies its writes (commit) or drops them          *)
(* (rollback).  A statement that needs a row locked by another            *)
(* transaction waits: its action is not enabled.                          *)
(***************************************************************************)
EXTENDS Integers, Sequences, FiniteSets, TLC

(***************************************************************************)
(* Bounds of the model.                                                    *)
(***************************************************************************)
\* number of requests (transactions) of one behaviour
NumTx == 2
\* number of reservations other actors create or expire in one behaviour
MaxReservationEvents == 1
\* largest quantity of one request item
MaxQty == 2
\* largest stock of one row of an inventory snapshot passed to the allocator
MaxStock == 2
\* largest quantity held by reservations in one row of such a snapshot
MaxReserved == 2
\* largest quantity priced by a direct call of the cost calculator
MaxPricedQty == 251
\* largest shipping cost, order price and order discount (cents) handed to a
\* direct call of isShippingCostValid
MaxShippingCost == 10
MaxOrderPrice == 60
MaxOrderDiscount == 8
\* most lines of a direct shipping cost call
MaxLines == 2
\* largest number of items of one request
MaxItems == 2
\* most update items of one direct call of the ledger write
MaxBatch == 2
\* most rows of the warehouses table in a call of the ranker on its own
MaxWarehouses == 3
\* longest time a transaction runs before it reads the reservations
MaxLockWait == 2

Tx == 1..NumTx

(***************************************************************************)
(* Reference data (products, volume_discounts, warehouses) as seeded.      *)
(***************************************************************************)
\* rows of the products table
Products == {"p1", "p2"}
\* product ids a request can name; "px" has no products row
ProductIds == Products \cup {"px"}

productRow ==
    [p1 |-> [unitPriceCents |-> 100, weightGrams |-> 1000],
     p2 |-> [unitPriceCents |-> 20,  weightGrams |-> 500]]

\* rows of volume_discounts; discountPercentage is numeric(5,2), kept in
\* hundredths of a percent (1000 is "10.00")
volumeDiscounts ==
    { [productId |-> "p1", threshold |-> 2, discountPercentage |-> 1000] }

\* rows of the warehouses table, in retrieval order
Warehouses == <<"w1", "w2">>
WarehouseIds == {Warehouses[i] : i \in 1..Len(Warehouses)}

\* destinations of shipping addresses
Destinations == {"d1", "d2"}

\* SHIPPING_COST_CENTS_PER_KG_PER_KM of the configuration
SHIPPING_COST_CENTS_PER_KG_PER_KM == 1
\* great-circle distance in km between a warehouse and a destination, for
\* the coordinates of the seeded warehouses and the two destinations
calculateDistanceKm(w, d) ==
    CASE d = "d1" /\ w = "w1" -> 14
      [] d = "d1" /\ w = "w2" -> 10
      [] d = "d2" /\ w = "w1" -> 0
      [] d = "d2" /\ w = "w2" -> 40

(***************************************************************************)
(* Arithmetic helpers.                                                     *)
(***************************************************************************)
Max(a, b) == IF a >= b THEN a ELSE b
Min(a, b) == IF a <= b THEN a ELSE b
\* Math.floor(a / b), b > 0
FloorDiv(a, b) == a \div b
\* Math.ceil(a / b), b > 0
CeilDiv(a, b) == -((-a) \div b)
\* Math.round(a / b), b > 0: halves go up
RoundDiv(a, b) == (2 * a + b) \div (2 * b)


(***************************************************************************)
(* State.                                                                  *)
(***************************************************************************)
VARIABLES
    config,        \* SHIPPING_COST_MAX_PERCENTAGE_OF_ORDER_VALUE as loaded
    inventory,     \* inventory table: <<productId, warehouseId>> -> quantity
    reservations,  \* reservations joined with their reservation_lines
    now,           \* CURRENT_TIMESTAMP of the database
    orders,        \* orders table (committed rows)
    orderLines,    \* order_lines table (committed rows)
    inventoryLog,  \* inventory_log table (committed rows)
    lockedBy,      \* inventory row -> transaction holding its row lock, 0 if none
    pc,            \* transaction -> position in its handler
    kind,          \* transaction -> "order" | "feasibility" | "ledger" | "none"
    request,       \* transaction -> the request it serves
    currentInventoryByWarehouse,   \* transaction -> result of the locked read
    reservedInventoryByWarehouse,  \* transaction -> result of the reservation read
    updIdx,        \* transaction -> update items processed by updateInventoryAndLogChanges
    txInventory,   \* transaction -> its uncommitted inventory writes
    txLog,         \* transaction -> its uncommitted inventory_log rows
    txOrder,       \* transaction -> its uncommitted order header and lines
    result,        \* transaction -> what the call returned or threw
    call,          \* a direct call of one of the pure helpers: its name and arguments
    returned       \* what that call returned

vars == <<config, inventory, reservations, now, orders, orderLines, inventoryLog,
          lockedBy, pc, kind, request, currentInventoryByWarehouse,
          reservedInventoryByWarehouse, updIdx, txInventory, txLog, txOrder, result,
          call, returned>>

\* the committed tables the engine writes
tables == <<inventory, orders, orderLines, inventoryLog>>

(***************************************************************************)
(* Cost Calculator: calculateProductCostsWithDiscounts.                    *)
(***************************************************************************)
\* keys of the result Map in insertion order: a product id keeps the
\* position of its first item
RECURSIVE MapKeys(_, _)
MapKeys(items, seen) ==
    IF items = <<>> THEN <<>>
    ELSE LET p == Head(items).productId IN
         IF p \in seen THEN MapKeys(Tail(items), seen)
         ELSE <<p>> \o MapKeys(Tail(items), seen \cup {p})

\* entries that add up the quantities of the items of a product id
RECURSIVE SummedItemQuantity(_, _)
SummedItemQuantity(items, p) ==
    IF items = <<>> THEN 0
    ELSE (IF Head(items).productId = p THEN Head(items).quantity ELSE 0)
         + SummedItemQuantity(Tail(items), p)

\* resultsMap.set(item.productId, ...) in item order: the last item of a
\* product id decides its entry
RECURSIVE LastItemQuantity(_, _)
LastItemQuantity(items, p) ==
    LET n == Len(items) IN
    IF items[n].productId = p THEN items[n].quantity
    ELSE LastItemQuantity(SubSeq(items, 1, n - 1), p)

\* the products and volume_discounts tables a call reads through dbx, as seeded
seededDb == [products |-> productRow, volumeDiscounts |-> volumeDiscounts]

\* ORDER BY threshold DESC
RECURSIVE orderByThresholdDesc(_)
orderByThresholdDesc(rows) ==
    IF rows = {} THEN <<>>
    ELSE LET top == CHOOSE d \in rows : \A e \in rows : e.threshold <= d.threshold
         IN <<top>> \o orderByThresholdDesc(rows \ {top})

\* volume_discounts WHERE product_id IN uniqueProductIds ORDER BY threshold DESC
fetchedDiscounts(dbx, uniqueProductIds) ==
    orderByThresholdDesc({d \in dbx.volumeDiscounts : d.productId \in uniqueProductIds})

\* a lookup that hands every product all the fetched tiers
discountsOfAnyProduct(fetched, p) == fetched

\* productDiscountsMap.get(productId) || []: the fetched tiers of one
\* product, in fetched order
discountsForProduct(fetched, p) == SelectSeq(fetched, LAMBDA d : d.productId = p)

\* the loop over the tiers of the product: the first one whose threshold
\* the requested quantity reaches, 0.0 if none
RECURSIVE appliedDiscountPercentageValue(_, _)
appliedDiscountPercentageValue(discounts, requestedQuantity) ==
    IF discounts = <<>> THEN 0
    ELSE IF requestedQuantity >= Head(discounts).threshold
         THEN Head(discounts).discountPercentage
         ELSE appliedDiscountPercentageValue(Tail(discounts), requestedQuantity)

\* the (totalProductCostCents, percentage) pairs, among those priced here,
\* whose product is k + 1/2 exactly but falls below it in IEEE-754 doubles:
\* 90 * (35.00 / 100) is 31.499999999999996
doubleProductBelowHalf == {<<90, 3500>>, <<22410, 3500>>, <<22590, 3500>>}

\* Math.round(totalProductCostCents * (appliedDiscountPercentageValue / 100))
\* on doubles: halves go up, where the double product is the exact one
mathRoundOfDiscount(totalProductCostCents, pct) ==
    RoundDiv(totalProductCostCents * pct, 10000)
    - (IF <<totalProductCostCents, pct>> \in doubleProductBelowHalf THEN 1 ELSE 0)

\* one pass of the loop over the items: the entry set for item.productId
costDetails(dbx, fetched, p, requestedQuantity) ==
    LET unitPriceCents == dbx.products[p].unitPriceCents
        pct == appliedDiscountPercentageValue(discountsForProduct(fetched, p),
                                              requestedQuantity)
        totalProductCostCents == unitPriceCents * requestedQuantity
        totalDiscountCents == mathRoundOfDiscount(totalProductCostCents, pct)
    IN [requestedQuantity |-> requestedQuantity,
        unitPriceCents |-> unitPriceCents,
        weightGrams |-> dbx.products[p].weightGrams,
        discountPercentage |-> pct,
        totalProductCostCents |-> totalProductCostCents,
        totalDiscountCents |-> totalDiscountCents,
        totalDiscountedProductCostCents |-> totalProductCostCents - totalDiscountCents]

\* error is "ProductNotFoundError" when an item names no products row;
\* otherwise the Map: its keys in insertion order and its entries
calculateProductCosts(dbx, items) ==
    IF \E i \in 1..Len(items) : items[i].productId \notin DOMAIN dbx.products
    THEN [error |-> "ProductNotFoundError", keys |-> <<>>, details |-> <<>>]
    ELSE LET keys == MapKeys(items, {})
             uniqueProductIds == {keys[i] : i \in 1..Len(keys)}
             fetched == fetchedDiscounts(dbx, uniqueProductIds)
         IN [error |-> "none",
             keys |-> keys,
             details |-> [p \in uniqueProductIds |->
                             costDetails(dbx, fetched, p, LastItemQuantity(items, p))]]

\* the tier applied to a quantity of a seeded product
appliedDiscountPercentage(p, requestedQuantity) ==
    appliedDiscountPercentageValue(
        discountsForProduct(fetchedDiscounts(seededDb, {p}), p), requestedQuantity)

ProductCostDetails(p, requestedQuantity) ==
    costDetails(seededDb, fetchedDiscounts(seededDb, {p}), p, requestedQuantity)

\* a pricing that prices the items it knows and drops the others
calculateProductCostsSkippingUnknown(items) ==
    LET known == SelectSeq(items, LAMBDA item : item.productId \in Products)
        keys == MapKeys(known, {})
    IN [error |-> "none",
        keys |-> keys,
        details |-> [p \in {keys[i] : i \in 1..Len(keys)} |->
                        ProductCostDetails(p, LastItemQuantity(known, p))]]

\* calculateProductCostsWithDiscounts on the seeded tables
calculateProductCostsWithDiscounts(items) == calculateProductCosts(seededDb, items)

RECURSIVE SumOverKeys(_, _, _)
SumOverKeys(keys, details, field) ==
    IF keys = <<>> THEN 0
    ELSE details[Head(keys)][field] + SumOverKeys(Tail(keys), details, field)

calculateOverallProductTotals(productDetailsMap) ==
    [overallTotalPriceCents |->
        SumOverKeys(productDetailsMap.keys, productDetailsMap.details, "totalProductCostCents"),
     overallTotalDiscountCents |->
        SumOverKeys(productDetailsMap.keys, productDetailsMap.details, "totalDiscountCents")]

(***************************************************************************)
(* Warehouse Ranker: getWarehousesSortedByShippingCost.                    *)
(***************************************************************************)
\* Array.prototype.sort with (a, b) => a.cost - b.cost: stable, ascending
RECURSIVE InsertByCost(_, _)
InsertByCost(sorted, x) ==
    IF sorted = <<>> THEN <<x>>
    ELSE IF Head(sorted).shippingCostCentsPerKg <= x.shippingCostCentsPerKg
         THEN <<Head(sorted)>> \o InsertByCost(Tail(sorted), x)
         ELSE <<x>> \o sorted

\* a sort that puts an entry before the entries of equal cost
RECURSIVE SortByCostEqualsReversed(_)
SortByCostEqualsReversed(seq) ==
    IF seq = <<>> THEN <<>>
    ELSE InsertByCost(SortByCostEqualsReversed(Tail(seq)), Head(seq))

RECURSIVE SortByCost(_)
SortByCost(seq) ==
    IF seq = <<>> THEN <<>>
    ELSE InsertByCost(SortByCost(SubSeq(seq, 1, Len(seq) - 1)), seq[Len(seq)])

getWarehousesSortedByShippingCost(d) ==
    SortByCost([i \in 1..Len(Warehouses) |->
        [warehouseId |-> Warehouses[i],
         shippingCostCentsPerKg |->
             calculateDistanceKm(Warehouses[i], d) * SHIPPING_COST_CENTS_PER_KG_PER_KM]])

(***************************************************************************)
(* Stock Ledger reads.                                                     *)
(***************************************************************************)
\* the inventory rows WHERE product_id IN productIds
MatchingRows(inv, productIds) == {r \in DOMAIN inv : r[1] \in productIds}

\* result[warehouseId][productId] = quantity for every matching row
getInventoryForProducts(inv, productIds) ==
    [k \in {<<r[2], r[1]>> : r \in MatchingRows(inv, productIds)} |-> inv[<<k[2], k[1]>>]]

RECURSIVE SumQuantity(_)
SumQuantity(rows) ==
    IF rows = {} THEN 0
    ELSE LET r == CHOOSE x \in rows : TRUE IN r.quantity + SumQuantity(rows \ {r})

\* reservation lines joined with reservations WHERE status = 'ACTIVE' AND
\* expires_at > CURRENT_TIMESTAMP AND product_id IN productIds, summed per
\* (warehouse, product)
getReservedInventoryByWarehouseForProducts(rsv, t, productIds) ==
    LET active == {r \in rsv : /\ r.status = "ACTIVE"
                               /\ r.expiresAt > t
                               /\ r.productId \in productIds}
    IN [k \in {<<r.warehouseId, r.productId>> : r \in active} |->
           SumQuantity({r \in active : r.warehouseId = k[1] /\ r.productId = k[2]})]

\* byWarehouse[warehouseId]?.[productId] ?? 0
Lookup(byWarehouse, warehouseId, productId) ==
    IF <<warehouseId, productId>> \in DOMAIN byWarehouse
    THEN byWarehouse[<<warehouseId, productId>>] ELSE 0

(***************************************************************************)
(* Allocator: performInventoryAllocation.                                  *)
(***************************************************************************)
\* the stock of a warehouse taken without its reservations
availableIgnoringReserved(inventoryInWarehouse, reservedInWarehouse) ==
    inventoryInWarehouse

\* stock of one product at one warehouse open to a walk-in order
availableForWalkIn(inventoryInWarehouse, reservedInWarehouse) ==
    Max(0, inventoryInWarehouse - reservedInWarehouse)

\* a warehouse giving all that is still missing, whatever it has
qtyToAllocateAllRemaining(remainingQtyToAllocate, available) == remainingQtyToAllocate

\* a warehouse giving all it has, whatever is still missing
qtyToAllocateAllAvailable(remainingQtyToAllocate, available) == available

\* how much one warehouse gives to a product still missing remaining units
qtyToAllocateFromWarehouse(remainingQtyToAllocate, available) ==
    Min(remainingQtyToAllocate, available)

\* a loop that walks the warehouses from the end of the list
RECURSIVE AllocateProductBackwards(_, _, _, _, _, _)
AllocateProductBackwards(productId, productDetail, whs, cur, rsv, remainingQtyToAllocate) ==
    IF whs = <<>> \/ remainingQtyToAllocate <= 0
    THEN [lines |-> <<>>, updates |-> <<>>, remaining |-> remainingQtyToAllocate]
    ELSE LET warehouse == whs[Len(whs)]
             others == SubSeq(whs, 1, Len(whs) - 1)
             available == availableForWalkIn(
                              Lookup(cur, warehouse.warehouseId, productId),
                              Lookup(rsv, warehouse.warehouseId, productId))
             qty == IF available > 0
                    THEN qtyToAllocateFromWarehouse(remainingQtyToAllocate, available)
                    ELSE 0
             rest == AllocateProductBackwards(productId, productDetail, others, cur, rsv,
                                              remainingQtyToAllocate - qty)
         IN IF available > 0
            THEN [lines |-> <<[productId |-> productId,
                               warehouseId |-> warehouse.warehouseId,
                               allocatedQuantity |-> qty,
                               unitPriceCents |-> productDetail.unitPriceCents,
                               discountPercentage |-> productDetail.discountPercentage,
                               productWeightGrams |-> productDetail.weightGrams,
                               shippingCostCentsPerKg |-> warehouse.shippingCostCentsPerKg]>>
                            \o rest.lines,
                  updates |-> <<[productId |-> productId,
                                 warehouseId |-> warehouse.warehouseId,
                                 quantityToDecrement |-> qty]>> \o rest.updates,
                  remaining |-> rest.remaining]
            ELSE rest

\* the inner loop over the warehouses not yet visited for one product
RECURSIVE AllocateProduct(_, _, _, _, _, _)
AllocateProduct(productId, productDetail, whs, cur, rsv, remainingQtyToAllocate) ==
    IF whs = <<>> \/ remainingQtyToAllocate <= 0
    THEN [lines |-> <<>>, updates |-> <<>>, remaining |-> remainingQtyToAllocate]
    ELSE LET warehouse == Head(whs)
             available == availableForWalkIn(
                              Lookup(cur, warehouse.warehouseId, productId),
                              Lookup(rsv, warehouse.warehouseId, productId))
         IN IF available > 0
            THEN LET qty == qtyToAllocateFromWarehouse(remainingQtyToAllocate, available)
                     rest == AllocateProduct(productId, productDetail, Tail(whs), cur, rsv,
                                             remainingQtyToAllocate - qty)
                 IN [lines |-> <<[productId |-> productId,
                                  warehouseId |-> warehouse.warehouseId,
                                  allocatedQuantity |-> qty,
                                  unitPriceCents |-> productDetail.unitPriceCents,
                                  discountPercentage |-> productDetail.discountPercentage,
                                  productWeightGrams |-> productDetail.weightGrams,
                                  shippingCostCentsPerKg |-> warehouse.shippingCostCentsPerKg]>>
                               \o rest.lines,
                     updates |-> <<[productId |-> productId,
                                    warehouseId |-> warehouse.warehouseId,
                                    quantityToDecrement |-> qty]>> \o rest.updates,
                     remaining |-> rest.remaining]
            ELSE AllocateProduct(productId, productDetail, Tail(whs), cur, rsv,
                                 remainingQtyToAllocate)

\* the outer loop over the entries of the product details Map still to do;
\* stops with InventoryAllocationError at the first product left short
RECURSIVE AllocateEntries(_, _, _, _, _)
AllocateEntries(keys, details, sortedWarehouses, cur, rsv) ==
    IF keys = <<>>
    THEN [error |-> "none", allocatedOrderLines |-> <<>>, inventoryUpdates |-> <<>>]
    ELSE LET productId == Head(keys)
             productDetail == details[productId]
             one == AllocateProduct(productId, productDetail, sortedWarehouses, cur, rsv,
                                    productDetail.requestedQuantity)
         IN IF one.remaining > 0
            THEN [error |-> "InventoryAllocationError",
                  productId |-> productId,
                  requested |-> productDetail.requestedQuantity,
                  allocatedForThisProduct |-> productDetail.requestedQuantity - one.remaining]
            ELSE LET rest == AllocateEntries(Tail(keys), details, sortedWarehouses, cur, rsv)
                 IN IF rest.error # "none" THEN rest
                    ELSE [error |-> "none",
                          allocatedOrderLines |-> one.lines \o rest.allocatedOrderLines,
                          inventoryUpdates |-> one.updates \o rest.inventoryUpdates]

performInventoryAllocation(productDetailsMap, sortedWarehouses, cur, rsv) ==
    AllocateEntries(productDetailsMap.keys, productDetailsMap.details,
                    sortedWarehouses, cur, rsv)

(***************************************************************************)
(* Shipping cost and its ceiling.                                          *)
(***************************************************************************)
\* the (allocatedQuantity * productWeightGrams, shippingCostCentsPerKg)
\* pairs, among those shipped here, whose cost is a whole number of cents
\* but comes out above it in IEEE-754 doubles: (1100 / 1000) * 50 is
\* 55.00000000000001
doubleProductAboveInteger == {<<1100, 50>>, <<2200, 50>>}

\* Math.ceil(totalWeightKgForLine * line.shippingCostCentsPerKg) on doubles
legShippingCost(line) ==
    LET grams == line.allocatedQuantity * line.productWeightGrams IN
    CeilDiv(grams * line.shippingCostCentsPerKg, 1000)
    + (IF <<grams, line.shippingCostCentsPerKg>> \in doubleProductAboveInteger
       THEN 1 ELSE 0)

RECURSIVE calculateTotalShippingCost(_)
calculateTotalShippingCost(allocatedOrderLines) ==
    IF allocatedOrderLines = <<>> THEN 0
    ELSE legShippingCost(Head(allocatedOrderLines))
         + calculateTotalShippingCost(Tail(allocatedOrderLines))

\* a ceiling that lets every cost through
isShippingCostAlwaysValid(totalShippingCostCents, overallTotalPriceCents, overallTotalDiscountCents) ==
    TRUE

\* a limit rounded to the nearest cent
maxAllowedShippingCostRounded(overallDiscountedTotalPriceCents) ==
    RoundDiv(15 * overallDiscountedTotalPriceCents, 100)

\* Math.floor(0.15 * overallDiscountedTotalPriceCents)
maxAllowedShippingCost(overallDiscountedTotalPriceCents) ==
    FloorDiv(15 * overallDiscountedTotalPriceCents, 100)

\* a check with the comparison turned around
isShippingCostValidReversed(totalShippingCostCents, overallTotalPriceCents, overallTotalDiscountCents) ==
    LET overallDiscountedTotalPriceCents ==
            overallTotalPriceCents - overallTotalDiscountCents
    IN IF overallDiscountedTotalPriceCents <= 0
       THEN totalShippingCostCents = 0
       ELSE totalShippingCostCents >= maxAllowedShippingCost(overallDiscountedTotalPriceCents)

isShippingCostValid(totalShippingCostCents, overallTotalPriceCents, overallTotalDiscountCents) ==
    LET overallDiscountedTotalPriceCents ==
            overallTotalPriceCents - overallTotalDiscountCents
    IN IF overallDiscountedTotalPriceCents <= 0
       THEN totalShippingCostCents = 0
       ELSE totalShippingCostCents <= maxAllowedShippingCost(overallDiscountedTotalPriceCents)

(***************************************************************************)
(* Requests.                                                               *)
(***************************************************************************)
RequestedProducts == [productId : ProductIds, quantity : 1..MaxQty]
RequestedProductLists == UNION {[1..n -> RequestedProducts] : n \in 1..MaxItems}
\* CreateOrderRequest after validation: a shipping address and a non-empty
\* list of items with positive quantities; the engine is run for orders
\* shipped to d1
Requests == [dest : {"d1"}, items : RequestedProductLists]

\* new Error("Failed to update inventory for product ..."), thrown by the
\* ledger write when its UPDATE matched no row
FailedToUpdateInventory == "Error: Failed to update inventory"
\* the error of a statement the database could not run
DatabaseError == "Error: database"

NoRequest == [dest |-> "none", items |-> <<>>]
NoResult == [status |-> "none"]
NoRows == <<>>

\* the seeded inventory rows: no row for p2 at w2
InitialInventory ==
    (<<"p1", "w1">> :> 3) @@ (<<"p1", "w2">> :> 1) @@ (<<"p2", "w1">> :> 1)
Rows == DOMAIN InitialInventory

\* the seeded reservations, each with its one reservation line
InitialReservations ==
    { [id |-> "r1", status |-> "ACTIVE", expiresAt |-> 10,
       productId |-> "p1", warehouseId |-> "w1", quantity |-> 1],
      [id |-> "r2", status |-> "EXPIRED", expiresAt |-> 10,
       productId |-> "p1", warehouseId |-> "w2", quantity |-> 1],
      [id |-> "r3", status |-> "ACTIVE", expiresAt |-> 3,
       productId |-> "p2", warehouseId |-> "w1", quantity |-> 1],
      [id |-> "r4", status |-> "ACTIVE", expiresAt |-> 10,
       productId |-> "p2", warehouseId |-> "w2", quantity |-> 1] }

(***************************************************************************)
(* What a running call holds in its locals.                                *)
(***************************************************************************)
productIds(t) == {request[t].items[i].productId : i \in 1..Len(request[t].items)}
productDetailsMap(t) == calculateProductCostsWithDiscounts(request[t].items)
sortedWarehouses(t) == getWarehousesSortedByShippingCost(request[t].dest)
totals(t) == calculateOverallProductTotals(productDetailsMap(t))

allocationOf(t, cur, rsv) ==
    performInventoryAllocation(productDetailsMap(t), sortedWarehouses(t), cur, rsv)
allocationResult(t) ==
    allocationOf(t, currentInventoryByWarehouse[t], reservedInventoryByWarehouse[t])

\* the update items updateInventoryAndLogChanges is called with
updates(t) ==
    IF kind[t] = "ledger" THEN request[t].updates
    ELSE allocationResult(t).inventoryUpdates

\* the quantity of an inventory row as transaction t sees it
visibleQuantity(t, r) ==
    IF r \in DOMAIN txInventory[t] THEN txInventory[t][r] ELSE inventory[r]

(***************************************************************************)
(* Transactions: db.transaction(callback) commits when the callback        *)
(* returns and rolls back when it throws.                                  *)
(***************************************************************************)
\* a commit whose order rows replace the rows of the earlier orders
CommittedReplacingOrders(t) ==
    [inventory |-> [r \in DOMAIN inventory |-> visibleQuantity(t, r)],
     orders |-> IF txOrder[t].header = {} THEN orders ELSE txOrder[t].header,
     orderLines |-> IF txOrder[t].header = {} THEN orderLines ELSE txOrder[t].lines,
     inventoryLog |-> inventoryLog \cup {txLog[t][i] : i \in 1..Len(txLog[t])}]

\* the tables after transaction t commits
Committed(t) ==
    [inventory |-> [r \in DOMAIN inventory |-> visibleQuantity(t, r)],
     orders |-> orders \cup txOrder[t].header,
     orderLines |-> orderLines \cup txOrder[t].lines,
     inventoryLog |-> inventoryLog \cup {txLog[t][i] : i \in 1..Len(txLog[t])}]

\* a rollback that keeps what the transaction wrote
RolledBackKeepingWrites(t) ==
    [inventory |-> [r \in DOMAIN inventory |-> visibleQuantity(t, r)],
     orders |-> orders \cup txOrder[t].header,
     orderLines |-> orderLines \cup txOrder[t].lines,
     inventoryLog |-> inventoryLog \cup {txLog[t][i] : i \in 1..Len(txLog[t])}]

\* the tables after transaction t rolls back
RolledBack(t) ==
    [inventory |-> inventory,
     orders |-> orders,
     orderLines |-> orderLines,
     inventoryLog |-> inventoryLog]

NoOrder == [header |-> {}, lines |-> {}]

\* the end of transaction t: its row locks go, its uncommitted rows are gone
EndTransaction(t, after) ==
    /\ inventory' = after.inventory
    /\ orders' = after.orders
    /\ orderLines' = after.orderLines
    /\ inventoryLog' = after.inventoryLog
    /\ lockedBy' = [r \in DOMAIN lockedBy |-> IF lockedBy[r] = t THEN 0 ELSE lockedBy[r]]
    /\ txInventory' = [txInventory EXCEPT ![t] = NoRows]
    /\ txLog' = [txLog EXCEPT ![t] = <<>>]
    /\ txOrder' = [txOrder EXCEPT ![t] = NoOrder]

\* the callback throws: rollback, and the call rejects with the error
Fail(t, error) ==
    /\ EndTransaction(t, RolledBack(t))
    /\ pc' = [pc EXCEPT ![t] = "FAILED"]
    /\ result' = [result EXCEPT ![t] = [status |-> "error", error |-> error]]

(***************************************************************************)
(* Init.                                                                   *)
(***************************************************************************)
InitEngine ==
    /\ inventory = InitialInventory
    /\ reservations = InitialReservations
    /\ now = 5
    /\ orders = {}
    /\ orderLines = {}
    /\ inventoryLog = {}
    /\ lockedBy = [r \in Rows |-> 0]
    /\ pc = [t \in Tx |-> "idle"]
    /\ kind = [t \in Tx |-> "none"]
    /\ request = [t \in Tx |-> NoRequest]
    /\ currentInventoryByWarehouse = [t \in Tx |-> NoRows]
    /\ reservedInventoryByWarehouse = [t \in Tx |-> NoRows]
    /\ updIdx = [t \in Tx |-> 0]
    /\ txInventory = [t \in Tx |-> NoRows]
    /\ txLog = [t \in Tx |-> <<>>]
    /\ txOrder = [t \in Tx |-> NoOrder]
    /\ result = [t \in Tx |-> NoResult]

\* no direct call of a helper is pending
NoCall == [fn |-> "none"]
NoReturn == [pending |-> TRUE]

Init ==
    /\ config = 15
    /\ InitEngine
    /\ call = NoCall
    /\ returned = NoReturn

(***************************************************************************)
(* createWalkInOrder and checkFeasibility up to the transaction: pricing   *)
(* and ranking (Promise.all), then the overall totals.                     *)
(***************************************************************************)
\* requests are numbered in arrival order
MayStart(t) ==
    /\ pc[t] = "idle"
    /\ \A u \in Tx : u < t => pc[u] # "idle"

Start(t, k, req) ==
    /\ MayStart(t)
    /\ kind' = [kind EXCEPT ![t] = k]
    /\ request' = [request EXCEPT ![t] = req]
    /\ IF calculateProductCostsWithDiscounts(req.items).error # "none"
       THEN /\ pc' = [pc EXCEPT ![t] = "FAILED"]
            /\ result' = [result EXCEPT ![t] =
                             [status |-> "error", error |-> "ProductNotFoundError"]]
       ELSE /\ pc' = [pc EXCEPT ![t] = "LOCKING"]
            /\ UNCHANGED result
    /\ UNCHANGED <<call, returned, config, inventory, reservations, now, orders, orderLines, inventoryLog,
                   lockedBy, currentInventoryByWarehouse, reservedInventoryByWarehouse,
                   updIdx, txInventory, txLog, txOrder>>

createWalkInOrder(t) == \E req \in Requests : Start(t, "order", req)

checkFeasibility(t) == \E req \in Requests : Start(t, "feasibility", req)

(***************************************************************************)
(* Inside the transaction.                                                 *)
(***************************************************************************)
\* a read that waits for no lock
forUpdateIgnored(t, rows) == TRUE

\* .for('update'): the statement goes on once no other transaction holds
\* the row lock of a row it selects
forUpdateGranted(t, rows) == \A r \in rows : lockedBy[r] \in {0, t}

\* SELECT ... FROM inventory WHERE product_id IN (...) FOR UPDATE: waits
\* while another transaction holds the lock of a matching row, then locks
\* the matching rows and returns their committed quantities
LockedRead(t) ==
    /\ pc[t] = "LOCKING"
    /\ LET rows == MatchingRows(inventory, productIds(t)) IN
       /\ forUpdateGranted(t, rows)
       /\ lockedBy' = [r \in DOMAIN lockedBy |-> IF r \in rows THEN t ELSE lockedBy[r]]
       /\ currentInventoryByWarehouse' =
              [currentInventoryByWarehouse EXCEPT ![t] =
                  getInventoryForProducts(inventory, productIds(t))]
    /\ pc' = [pc EXCEPT ![t] = "RESERVED"]
    /\ UNCHANGED <<call, returned, config, inventory, reservations, now, orders, orderLines, inventoryLog,
                   kind, request, reservedInventoryByWarehouse, updIdx,
                   txInventory, txLog, txOrder, result>>

\* what the step after the reservation read computes synchronously
shippingOf(t, allocation) == calculateTotalShippingCost(allocation.allocatedOrderLines)
shippingIsValid(t, allocation) ==
    isShippingCostValid(shippingOf(t, allocation),
                        totals(t).overallTotalPriceCents,
                        totals(t).overallTotalDiscountCents)

\* createWalkInOrder accepting whatever shipping cost
orderShippingAlwaysValid(t, allocation) == TRUE

\* createWalkInOrder: if (!isShippingCostValid(...)) throw ShippingCostExceededError
orderShippingIsValid(t, allocation) == shippingIsValid(t, allocation)

\* checkFeasibility reporting every allocation as valid
feasibilityAlwaysValid(t, allocation) == TRUE

\* checkFeasibility: const shippingIsValid = isShippingCostValid(...)
feasibilityIsValid(t, allocation) == shippingIsValid(t, allocation)

\* checkFeasibility going on to the ledger write
afterFeasibilityUpdating(t) == "UPDATING"

\* where checkFeasibility goes on after the validation: its callback returns
afterFeasibility(t) == "COMMITTING"

\* a loop that skips nothing
NextItemWhateverAmount(ups, i) == i

\* first index from i on of an item with a positive quantityToDecrement;
\* Len + 1 when there is none (items with a quantity <= 0 are skipped)
RECURSIVE NextPositive(_, _)
NextPositive(ups, i) ==
    IF i > Len(ups) THEN i
    ELSE IF ups[i].quantityToDecrement > 0 THEN i
    ELSE NextPositive(ups, i + 1)

\* createWalkInOrder: reservation read (unlocked), allocation, shipping
\* validation; then the order id is drawn and the update loop is entered
OrderAllocate(t) ==
    /\ pc[t] = "RESERVED"
    /\ kind[t] = "order"
    /\ LET rsv == getReservedInventoryByWarehouseForProducts(reservations, now, productIds(t))
           allocation == allocationOf(t, currentInventoryByWarehouse[t], rsv)
       IN /\ reservedInventoryByWarehouse' = [reservedInventoryByWarehouse EXCEPT ![t] = rsv]
          /\ IF allocation.error # "none"
             THEN Fail(t, "InsufficientInventoryError")
             ELSE IF ~orderShippingIsValid(t, allocation)
             THEN Fail(t, "ShippingCostExceededError")
             ELSE /\ pc' = [pc EXCEPT ![t] = "UPDATING"]
                  /\ UNCHANGED <<inventory, orders, orderLines, inventoryLog, lockedBy,
                                 txInventory, txLog, txOrder, result>>
    /\ UNCHANGED <<call, returned, config, reservations, now, kind, request,
                   currentInventoryByWarehouse, updIdx>>

\* checkFeasibility: the same up to the validation, whose outcome is returned
FeasibilityAllocate(t) ==
    /\ pc[t] = "RESERVED"
    /\ kind[t] = "feasibility"
    /\ LET rsv == getReservedInventoryByWarehouseForProducts(reservations, now, productIds(t))
           allocation == allocationOf(t, currentInventoryByWarehouse[t], rsv)
       IN /\ reservedInventoryByWarehouse' = [reservedInventoryByWarehouse EXCEPT ![t] = rsv]
          /\ IF allocation.error # "none"
             THEN Fail(t, "InsufficientInventoryError")
             ELSE /\ pc' = [pc EXCEPT ![t] = afterFeasibility(t)]
                  /\ UNCHANGED <<inventory, orders, orderLines, inventoryLog, lockedBy,
                                 txInventory, txLog, txOrder, result>>
    /\ UNCHANGED <<call, returned, config, reservations, now, kind, request,
                   currentInventoryByWarehouse, updIdx>>

(***************************************************************************)
(* Stock Ledger write: updateInventoryAndLogChanges, one item per step.    *)
(***************************************************************************)
\* CHECK (quantity >= 0) of the inventory table
check_quantity_non_negative(quantity) == quantity >= 0

\* the UPDATE without its quantity condition and without the CHECK
updateInventoryRowUnconditional(exists, quantity, amount) ==
    IF exists
    THEN [updatedRows |-> 1, newQuantity |-> quantity - amount]
    ELSE [updatedRows |-> 0, newQuantity |-> quantity]

\* UPDATE inventory SET quantity = quantity - amount WHERE product_id = ..
\* AND warehouse_id = .. AND quantity >= amount RETURNING quantity, on a
\* row of the given quantity (exists: there is such a row)
updateInventoryRow(exists, quantity, amount) ==
    IF exists /\ quantity >= amount /\ check_quantity_non_negative(quantity - amount)
    THEN [updatedRows |-> 1, newQuantity |-> quantity - amount]
    ELSE [updatedRows |-> 0, newQuantity |-> quantity]

\* the row lock an UPDATE takes on the row it targets: the statement waits
\* while another transaction holds it
rowLockGranted(t, r) == lockedBy[r] \in {0, t}

\* a log row that records the amount with the wrong sign
inventoryLogRowUnsigned(t, seq, update, newQuantity, orderId) ==
    [id |-> <<t, seq>>,
     productId |-> update.productId,
     warehouseId |-> update.warehouseId,
     quantityChange |-> update.quantityToDecrement,
     newQuantity |-> newQuantity,
     changeType |-> "ORDER_FULFILLMENT",
     referenceId |-> orderId]

\* the inventory_log row of one applied item
inventoryLogRow(t, seq, update, newQuantity, orderId) ==
    [id |-> <<t, seq>>,
     productId |-> update.productId,
     warehouseId |-> update.warehouseId,
     quantityChange |-> -update.quantityToDecrement,
     newQuantity |-> newQuantity,
     changeType |-> "ORDER_FULFILLMENT",
     referenceId |-> orderId]

\* uuidv4() of an order; the reference a direct ledger call passes
orderIdOf(t) == IF kind[t] = "ledger" THEN request[t].orderId ELSE t

\* a caller that returns after the update loop without inserting the order
afterUpdatesSkippingInsert(t) == "COMMITTING"

\* where the caller goes on when the update loop is over
afterUpdates(t) == IF kind[t] = "order" THEN "INSERTING" ELSE "COMMITTING"

UpdateInventoryStep(t) ==
    /\ pc[t] = "UPDATING"
    /\ LET ups == updates(t)
           j == NextPositive(ups, updIdx[t] + 1)
       IN IF j > Len(ups)
          THEN /\ pc' = [pc EXCEPT ![t] = afterUpdates(t)]
               /\ updIdx' = [updIdx EXCEPT ![t] = Len(ups)]
               /\ UNCHANGED <<inventory, orders, orderLines, inventoryLog, lockedBy,
                              txInventory, txLog, txOrder, result>>
          ELSE LET update == ups[j]
                   r == <<update.productId, update.warehouseId>>
                   exists == r \in DOMAIN inventory
                   upd == updateInventoryRow(exists,
                                             IF exists THEN visibleQuantity(t, r) ELSE 0,
                                             update.quantityToDecrement)
               IN IF upd.updatedRows = 0
                  THEN /\ exists => rowLockGranted(t, r)
                       /\ Fail(t, FailedToUpdateInventory)
                       /\ UNCHANGED updIdx
                  ELSE /\ rowLockGranted(t, r)
                       /\ lockedBy' = [lockedBy EXCEPT ![r] = t]
                       /\ txInventory' = [txInventory EXCEPT ![t] =
                                             (r :> upd.newQuantity) @@ txInventory[t]]
                       /\ txLog' = [txLog EXCEPT ![t] =
                                       Append(txLog[t],
                                              inventoryLogRow(t, j, update, upd.newQuantity,
                                                              orderIdOf(t)))]
                       /\ updIdx' = [updIdx EXCEPT ![t] = j]
                       /\ pc' = [pc EXCEPT ![t] =
                                    IF NextPositive(ups, j + 1) > Len(ups)
                                    THEN afterUpdates(t) ELSE "UPDATING"]
                       /\ UNCHANGED <<inventory, orders, orderLines, inventoryLog,
                                      txOrder, result>>
    /\ UNCHANGED <<call, returned, config, reservations, now, kind, request,
                   currentInventoryByWarehouse, reservedInventoryByWarehouse>>

(***************************************************************************)
(* Order persistence.                                                      *)
(***************************************************************************)
\* a header that stores the price after the discount as totalPriceCents
prepareOrderCreationDataNetPrice(orderId, dest, totalPriceCents, discountCents, shippingCostCents, allocatedOrderLines) ==
    [orderHeaderParams |->
        [orderId |-> orderId,
         shippingAddr |-> dest,
         totalPriceCents |-> totalPriceCents - discountCents,
         discountCents |-> discountCents,
         shippingCostCents |-> shippingCostCents],
     orderLineItemsData |->
        [i \in 1..Len(allocatedOrderLines) |->
            [productId |-> allocatedOrderLines[i].productId,
             warehouseId |-> allocatedOrderLines[i].warehouseId,
             quantity |-> allocatedOrderLines[i].allocatedQuantity,
             unitPriceCents |-> allocatedOrderLines[i].unitPriceCents,
             discountPercentage |-> allocatedOrderLines[i].discountPercentage]]]

prepareOrderCreationData(orderId, dest, totalPriceCents, discountCents, shippingCostCents, allocatedOrderLines) ==
    [orderHeaderParams |->
        [orderId |-> orderId,
         shippingAddr |-> dest,
         totalPriceCents |-> totalPriceCents,
         discountCents |-> discountCents,
         shippingCostCents |-> shippingCostCents],
     orderLineItemsData |->
        [i \in 1..Len(allocatedOrderLines) |->
            [productId |-> allocatedOrderLines[i].productId,
             warehouseId |-> allocatedOrderLines[i].warehouseId,
             quantity |-> allocatedOrderLines[i].allocatedQuantity,
             unitPriceCents |-> allocatedOrderLines[i].unitPriceCents,
             discountPercentage |-> allocatedOrderLines[i].discountPercentage]]]

\* the rows orderRepository.createOrderAndLines inserts: one orders row and
\* one order_lines row per line item
orderRows(t, allocation) ==
    LET data == prepareOrderCreationData(orderIdOf(t), request[t].dest,
                    totals(t).overallTotalPriceCents,
                    totals(t).overallTotalDiscountCents,
                    shippingOf(t, allocation),
                    allocation.allocatedOrderLines)
    IN [header |-> {data.orderHeaderParams},
        lines |-> {[orderId |-> data.orderHeaderParams.orderId, lineNo |-> i]
                     @@ data.orderLineItemsData[i] :
                   i \in 1..Len(data.orderLineItemsData)}]

\* the insert of the order and its lines in the caller's transaction
createOrderAndLines(t) ==
    /\ pc[t] = "INSERTING"
    /\ txOrder' = [txOrder EXCEPT ![t] = orderRows(t, allocationResult(t))]
    /\ pc' = [pc EXCEPT ![t] = "COMMITTING"]
    /\ UNCHANGED <<call, returned, config, inventory, reservations, now, orders, orderLines, inventoryLog,
                   lockedBy, kind, request, currentInventoryByWarehouse,
                   reservedInventoryByWarehouse, updIdx, txInventory, txLog, result>>

\* what the callback returns, given the allocation it computed
responseOf(t, allocation) ==
    CASE kind[t] = "order" ->
            [status |-> "ok",
             orderId |-> orderIdOf(t),
             totalPriceCents |-> totals(t).overallTotalPriceCents,
             discountCents |-> totals(t).overallTotalDiscountCents,
             shippingCostCents |-> shippingOf(t, allocation)]
      [] kind[t] = "feasibility" ->
            [status |-> "ok",
             isValid |-> feasibilityIsValid(t, allocation),
             totalPriceCents |-> totals(t).overallTotalPriceCents,
             discountCents |-> totals(t).overallTotalDiscountCents,
             shippingCostCents |-> shippingOf(t, allocation),
             message |-> IF feasibilityIsValid(t, allocation)
                         THEN "Reservation is feasible."
                         ELSE "Reservation not feasible: Shipping cost exceeds the allowed percentage of discounted order value."]
      [] OTHER -> [status |-> "ok"]

response(t) == responseOf(t, allocationResult(t))

\* the callback has returned: COMMIT, and the call resolves
Commit(t) ==
    /\ pc[t] = "COMMITTING"
    /\ EndTransaction(t, Committed(t))
    /\ pc' = [pc EXCEPT ![t] = "DONE"]
    /\ result' = [result EXCEPT ![t] = response(t)]
    /\ UNCHANGED <<call, returned, config, reservations, now, kind, request,
                   currentInventoryByWarehouse, reservedInventoryByWarehouse, updIdx>>

\* a statement of the transaction fails for a reason of the database
\* (connection lost, deadlock detected, ...): the callback throws
InTransaction(t) == pc[t] \in {"LOCKING", "RESERVED", "UPDATING", "INSERTING", "COMMITTING"}

DbError(t) ==
    /\ InTransaction(t)
    /\ Fail(t, DatabaseError)
    /\ UNCHANGED <<call, returned, config, reservations, now, kind, request,
                   currentInventoryByWarehouse, reservedInventoryByWarehouse, updIdx>>

(***************************************************************************)
(* A direct call of the ledger write in a transaction of its own.          *)
(***************************************************************************)
InventoryUpdateItems ==
    [productId : Products, warehouseId : WarehouseIds, quantityToDecrement : 0..MaxQty]

\* db.transaction(tx => updateInventoryAndLogChanges(tx, ups, orderId))
LedgerStart(t, ups) ==
    /\ MayStart(t)
    /\ request' = [request EXCEPT ![t] =
                      [dest |-> "none", items |-> <<>>, updates |-> ups,
                       orderId |-> "test-order"]]
    /\ kind' = [kind EXCEPT ![t] = "ledger"]
    /\ pc' = [pc EXCEPT ![t] = "UPDATING"]
    /\ UNCHANGED <<call, returned, config, inventory, reservations, now, orders, orderLines, inventoryLog,
                   lockedBy, currentInventoryByWarehouse, reservedInventoryByWarehouse,
                   updIdx, txInventory, txLog, txOrder, result>>

\* a call with one update item
LedgerCall(t) == \E u \in InventoryUpdateItems : LedgerStart(t, <<u>>)

\* the rows the update items of a list name: the two rows of p1, and p2 at
\* w2, which has no inventory row
BatchRows == {<<"p1", "w1">>, <<"p1", "w2">>, <<"p2", "w2">>}

\* update items as a caller other than the allocator can pass them: amounts
\* that are negative or zero, and rows that do not exist
AnyInventoryUpdateItems ==
    {[productId |-> r[1], warehouseId |-> r[2], quantityToDecrement |-> q] :
        r \in BatchRows, q \in (-1)..MaxQty}

UpdateBatches == UNION {[1..n -> AnyInventoryUpdateItems] : n \in 1..MaxBatch}

\* a call with a list of update items
LedgerBatchCall(t) == \E ups \in UpdateBatches : LedgerStart(t, ups)

(***************************************************************************)
(* The locked read, row by row: SELECT ... FOR UPDATE has no ORDER BY, so  *)
(* the order in which the statement comes to the rows it locks is that of  *)
(* the scan, which the statement leaves open. A statement that waits for a *)
(* row keeps the locks of the rows it has come to before.                  *)
(***************************************************************************)
\* the rows the locked read of transaction t selects
rowsToLock(t) == MatchingRows(inventory, productIds(t))

\* the statement of t comes to row r, which no transaction holds, and locks it
LockRow(t, r) ==
    /\ pc[t] = "LOCKING"
    /\ r \in rowsToLock(t)
    /\ lockedBy[r] = 0
    /\ \E o \in rowsToLock(t) \ {r} : lockedBy[o] # t
    /\ lockedBy' = [lockedBy EXCEPT ![r] = t]
    /\ UNCHANGED <<call, returned, config, inventory, reservations, now, orders, orderLines, inventoryLog,
                   pc, kind, request, currentInventoryByWarehouse, reservedInventoryByWarehouse,
                   updIdx, txInventory, txLog, txOrder, result>>

\* the statement of t waits for a row that u holds
waitsFor(t, u) ==
    /\ pc[t] = "LOCKING"
    /\ \E r \in rowsToLock(t) : lockedBy[r] = u

\* the deadlock detector of the database: t and u wait for each other, and
\* the statement of t is ended with "deadlock detected"
DeadlockDetected(t) ==
    /\ \E u \in Tx \ {t} : waitsFor(t, u) /\ waitsFor(u, t)
    /\ Fail(t, DatabaseError)
    /\ UNCHANGED <<call, returned, config, reservations, now, kind, request,
                   currentInventoryByWarehouse, reservedInventoryByWarehouse, updIdx>>

(***************************************************************************)
(* Reservations are written by other actors: a reservation is created, or  *)
(* an ACTIVE one is expired, in a transaction of its own that takes no     *)
(* inventory row lock.                                                     *)
(***************************************************************************)
\* ids of the reservations created in a behaviour
NewReservationIds == <<"r5", "r6", "r7">>
\* RESERVATION_TTL_MINUTES of the configuration
RESERVATION_TTL_MINUTES == 10

\* reservations created or expired since the seeding
ReservationEvents ==
    (Cardinality(reservations) - Cardinality(InitialReservations))
    + Cardinality({r \in reservations : r.status = "EXPIRED"})
    - Cardinality({r \in InitialReservations : r.status = "EXPIRED"})

\* stock of product p at warehouse w that no ACTIVE, unexpired reservation
\* holds, by the committed rows
unreservedStock(p, w) ==
    (IF <<p, w>> \in DOMAIN inventory THEN inventory[<<p, w>>] ELSE 0)
    - Lookup(getReservedInventoryByWarehouseForProducts(reservations, now, {p}), w, p)

\* another actor reserves stock that is not yet held
CreateReservation(p, w, q) ==
    /\ ReservationEvents < MaxReservationEvents
    /\ q <= unreservedStock(p, w)
    /\ reservations' = reservations \cup
           {[id |-> NewReservationIds[Cardinality(reservations)
                                        - Cardinality(InitialReservations) + 1],
             status |-> "ACTIVE",
             expiresAt |-> now + RESERVATION_TTL_MINUTES,
             productId |-> p, warehouseId |-> w, quantity |-> q]}
    /\ UNCHANGED <<call, returned, config, inventory, now, orders, orderLines, inventoryLog,
                   lockedBy, pc, kind, request, currentInventoryByWarehouse,
                   reservedInventoryByWarehouse, updIdx, txInventory, txLog, txOrder, result>>

\* another actor marks an ACTIVE reservation EXPIRED
ExpireReservation(r) ==
    /\ ReservationEvents < MaxReservationEvents
    /\ r \in reservations
    /\ r.status = "ACTIVE"
    /\ reservations' = (reservations \ {r}) \cup {[r EXCEPT !.status = "EXPIRED"]}
    /\ UNCHANGED <<call, returned, config, inventory, now, orders, orderLines, inventoryLog,
                   lockedBy, pc, kind, request, currentInventoryByWarehouse,
                   reservedInventoryByWarehouse, updIdx, txInventory, txLog, txOrder, result>>

(***************************************************************************)
(* The HTTP layer: the error classes, the routes POST /orders and          *)
(* POST /reservations?reserve=false, and the global error handler.         *)
(***************************************************************************)
\* class X extends Y
superclass ==
    [BadRequestError |-> "ApiError",
     NotFoundError |-> "ApiError",
     ConflictError |-> "ApiError",
     ProductNotFoundError |-> "BadRequestError",
     InsufficientInventoryError |-> "ConflictError",
     ShippingCostExceededError |-> "BadRequestError",
     ZodValidationError |-> "BadRequestError"]

\* the statusCode the constructors of the general HTTP errors pass to ApiError
statusCodePassed ==
    [BadRequestError |-> 400, NotFoundError |-> 404, ConflictError |-> 409]

\* err instanceof class
RECURSIVE instanceOf(_, _)
instanceOf(err, class) ==
    \/ err = class
    \/ /\ err \in DOMAIN superclass
       /\ instanceOf(superclass[err], class)

\* err.statusCode of an ApiError: set by the constructor chain
RECURSIVE statusCode(_)
statusCode(err) ==
    IF err \in DOMAIN statusCodePassed THEN statusCodePassed[err]
    ELSE statusCode(superclass[err])

\* a handler that knows no class of error
globalErrorHandlerFallbackOnly(err) == 500

\* the status of the response of the global error handling middleware; the
\* errors of the engine carry no status property (401 is for the JWT check)
globalErrorHandler(err) ==
    IF instanceOf(err, "ZodValidationError") THEN statusCode(err)
    ELSE IF instanceOf(err, "ApiError") THEN statusCode(err)
    ELSE 500

\* the status of the response to the request served by call t, once the
\* service call has settled: 201 with the order confirmation, 200 with the
\* feasibility details, or next(error)
httpStatus(t) ==
    IF result[t].status = "ok"
    THEN (IF kind[t] = "order" THEN 201 ELSE 200)
    ELSE globalErrorHandler(result[t].error)

(***************************************************************************)
(* Specifications.                                                         *)
(***************************************************************************)
\* the engine: order placement and feasibility checks
Next ==
    \E t \in Tx :
        \/ createWalkInOrder(t)
        \/ checkFeasibility(t)
        \/ LockedRead(t)
        \/ OrderAllocate(t)
        \/ FeasibilityAllocate(t)
        \/ UpdateInventoryStep(t)
        \/ createOrderAndLines(t)
        \/ Commit(t)
        \/ DbError(t)

Spec == Init /\ [][Next]_vars

\* the engine together with direct calls of the ledger write
NextLedger ==
    \E t \in Tx :
        \/ LedgerCall(t)
        \/ createWalkInOrder(t)
        \/ LockedRead(t)
        \/ OrderAllocate(t)
        \/ UpdateInventoryStep(t)
        \/ createOrderAndLines(t)
        \/ Commit(t)
        \/ DbError(t)

SpecLedger == Init /\ [][NextLedger]_vars

\* direct calls of the ledger write with lists of update items
NextLedgerBatch ==
    \E t \in Tx :
        \/ LedgerBatchCall(t)
        \/ UpdateInventoryStep(t)
        \/ Commit(t)
        \/ DbError(t)

SpecLedgerBatch == Init /\ [][NextLedgerBatch]_vars

\* requests on overlapping products: p1, p2, or both
OverlappingRequests ==
    {[dest |-> "d1", items |-> items] :
        items \in {<<[productId |-> "p1", quantity |-> 1]>>,
                   <<[productId |-> "p2", quantity |-> 1]>>,
                   <<[productId |-> "p1", quantity |-> MaxQty], [productId |-> "p2", quantity |-> 1]>>}}

\* the engine serving such requests with the locked read taken row by row;
\* every statement the database can run is run in the end, and a deadlock
\* is detected in the end
NextLocks ==
    \E t \in Tx :
        \/ \E req \in OverlappingRequests : Start(t, "order", req)
        \/ \E req \in OverlappingRequests : Start(t, "feasibility", req)
        \/ \E r \in Rows : LockRow(t, r)
        \/ LockedRead(t)
        \/ DeadlockDetected(t)
        \/ OrderAllocate(t)
        \/ FeasibilityAllocate(t)
        \/ UpdateInventoryStep(t)
        \/ createOrderAndLines(t)
        \/ Commit(t)
        \/ DbError(t)

\* the steps of transaction t that the database and the event loop take
\* whenever they can be taken
Proceeds(t) ==
    \/ LockedRead(t)
    \/ OrderAllocate(t)
    \/ FeasibilityAllocate(t)
    \/ UpdateInventoryStep(t)
    \/ createOrderAndLines(t)
    \/ Commit(t)

SpecLocks ==
    /\ Init /\ [][NextLocks]_vars
    /\ \A t \in Tx : WF_vars(Proceeds(t))
    /\ WF_vars(\E t \in Tx : DeadlockDetected(t))

\* order placement while other actors create and expire reservations, the
\* database answering every statement
NextReservations ==
    \/ \E t \in Tx :
          \/ createWalkInOrder(t)
          \/ LockedRead(t)
          \/ OrderAllocate(t)
          \/ UpdateInventoryStep(t)
          \/ createOrderAndLines(t)
          \/ Commit(t)
    \/ \E p \in Products, w \in WarehouseIds, q \in 1..MaxQty : CreateReservation(p, w, q)
    \/ \E r \in reservations : ExpireReservation(r)

SpecReservations == Init /\ [][NextReservations]_vars

\* the engine under each configured shipping ceiling of the test suites
InitConfig ==
    /\ config \in {1, 15}
    /\ InitEngine
    /\ call = NoCall
    /\ returned = NoReturn

SpecConfig == InitConfig /\ [][Next]_vars

(***************************************************************************)
(* Direct calls of the allocator: performInventoryAllocation on snapshots  *)
(* chosen freely, missing entries included.                                *)
(***************************************************************************)
\* a snapshot keyed [warehouseId][productId]: any of the entries may be missing
Snapshots(quantities) ==
    UNION {[S -> quantities] : S \in SUBSET (WarehouseIds \X Products)}

\* product details Maps as the cost calculator builds them
AllocatorDetails ==
    {calculateProductCostsWithDiscounts(items) :
        items \in {<<[productId |-> "p1", quantity |-> q]>> : q \in 1..(MaxQty + 1)}
               \cup {<<[productId |-> "p1", quantity |-> q], [productId |-> "p2", quantity |-> 1]>> :
                         q \in 1..(MaxQty + 1)}
               \cup {<<[productId |-> "p2", quantity |-> 1], [productId |-> "p1", quantity |-> q]>> :
                         q \in 1..(MaxQty + 1)}}

\* the ranked lists: the warehouses by cost for a destination, or none
AllocatorWarehouseLists ==
    {getWarehousesSortedByShippingCost(d) : d \in Destinations} \cup {<<>>}

AllocatorCalls ==
    [fn : {"performInventoryAllocation"},
     productDetailsMap : AllocatorDetails,
     sortedWarehouses : AllocatorWarehouseLists,
     currentInventoryByWarehouse : Snapshots(0..MaxStock),
     reservedInventoryByWarehouse : Snapshots(1..MaxReserved)]

InitAllocator ==
    /\ config = 15
    /\ InitEngine
    /\ call \in AllocatorCalls
    /\ returned = NoReturn

EngineIdle ==
    UNCHANGED <<config, inventory, reservations, now, orders, orderLines, inventoryLog,
                lockedBy, pc, kind, request, currentInventoryByWarehouse,
                reservedInventoryByWarehouse, updIdx, txInventory, txLog, txOrder, result>>

CallPerformInventoryAllocation ==
    /\ call.fn = "performInventoryAllocation"
    /\ returned = NoReturn
    /\ returned' = performInventoryAllocation(call.productDetailsMap, call.sortedWarehouses,
                                              call.currentInventoryByWarehouse,
                                              call.reservedInventoryByWarehouse)
    /\ UNCHANGED call
    /\ EngineIdle

SpecAllocator == InitAllocator /\ [][CallPerformInventoryAllocation]_vars

\* two runs of the allocator on the same arguments, one after the other
RunPerformInventoryAllocation ==
    /\ call.fn = "performInventoryAllocation"
    /\ returned = NoReturn
    /\ returned' = [first |-> performInventoryAllocation(
                                 call.productDetailsMap, call.sortedWarehouses,
                                 call.currentInventoryByWarehouse,
                                 call.reservedInventoryByWarehouse)]
    /\ UNCHANGED call
    /\ EngineIdle

RunPerformInventoryAllocationAgain ==
    /\ call.fn = "performInventoryAllocation"
    /\ DOMAIN returned = {"first"}
    /\ returned' = [first |-> returned.first,
                    again |-> performInventoryAllocation(
                                 call.productDetailsMap, call.sortedWarehouses,
                                 call.currentInventoryByWarehouse,
                                 call.reservedInventoryByWarehouse)]
    /\ UNCHANGED call
    /\ EngineIdle

NextAllocatorTwice == RunPerformInventoryAllocation \/ RunPerformInventoryAllocationAgain

SpecAllocatorTwice == InitAllocator /\ [][NextAllocatorTwice]_vars

(***************************************************************************)
(* Direct calls of the cost calculator: calculateProductCostsWithDiscounts *)
(* on chosen products and volume_discounts tables, then                    *)
(* calculateOverallProductTotals on its result.                            *)
(***************************************************************************)
\* the tiers of src/db/seed.ts for one product: 25+ 5%, 50+ 10%, 100+ 15%, 250+ 20%
seedTiers(p) ==
    {[productId |-> p, threshold |-> 25,  discountPercentage |-> 500],
     [productId |-> p, threshold |-> 50,  discountPercentage |-> 1000],
     [productId |-> p, threshold |-> 100, discountPercentage |-> 1500],
     [productId |-> p, threshold |-> 250, discountPercentage |-> 2000]}

\* tiers whose percentage does not grow with the threshold, one of them 100%
steepTiers(p) ==
    {[productId |-> p, threshold |-> 1,  discountPercentage |-> 3500],
     [productId |-> p, threshold |-> 2,  discountPercentage |-> 250],
     [productId |-> p, threshold |-> 50, discountPercentage |-> 10000]}

\* contents of volume_discounts a call may find
TierTables ==
    {{}, seedTiers("p1"), steepTiers("p2"), seedTiers("p1") \cup steepTiers("p2"),
     seedTiers("p2") \cup steepTiers("p1")}

\* contents of products a call may find: the seeded rows, or p2 at 90 cents
ProductTables == {productRow, [productRow EXCEPT !["p2"].unitPriceCents = 90]}

PricedQuantities == {1, 2, 3, 24, 25, 49, 50, 99, 100, 249, 250, MaxPricedQty}
PricedItems == [productId : Products, quantity : PricedQuantities]

PricingCalls ==
    [fn : {"calculateProductCostsWithDiscounts"},
     dbx : [products : ProductTables, volumeDiscounts : TierTables],
     items : UNION {[1..n -> PricedItems] : n \in 1..MaxItems}]

InitPricing ==
    /\ config = 15
    /\ InitEngine
    /\ call \in PricingCalls
    /\ returned = NoReturn

CallCalculateProductCosts ==
    /\ call.fn = "calculateProductCostsWithDiscounts"
    /\ returned = NoReturn
    /\ returned' = calculateProductCosts(call.dbx, call.items)
    /\ UNCHANGED call
    /\ EngineIdle

\* the services pass the Map to calculateOverallProductTotals
CallCalculateOverallProductTotals ==
    /\ call.fn = "calculateProductCostsWithDiscounts"
    /\ returned # NoReturn
    /\ "totals" \notin DOMAIN returned
    /\ returned' = [error |-> returned.error, keys |-> returned.keys,
                    details |-> returned.details,
                    totals |-> calculateOverallProductTotals(returned)]
    /\ UNCHANGED call
    /\ EngineIdle

NextPricing == CallCalculateProductCosts \/ CallCalculateOverallProductTotals

SpecPricing == InitPricing /\ [][NextPricing]_vars

(***************************************************************************)
(* Direct calls of calculateTotalShippingCost.                             *)
(***************************************************************************)
\* weights (grams) and costs per kg (cents) of the lines shipped
ShippedWeights == {123, 500, 1100}
ShippedCosts == {0, 14, 50}
ShippedLines ==
    [allocatedQuantity : 1..MaxQty, productWeightGrams : ShippedWeights,
     shippingCostCentsPerKg : ShippedCosts]

ShippingCalls ==
    [fn : {"calculateTotalShippingCost"},
     allocatedOrderLines : UNION {[1..n -> ShippedLines] : n \in 0..MaxLines}]

InitShipping ==
    /\ config = 15
    /\ InitEngine
    /\ call \in ShippingCalls
    /\ returned = NoReturn

CallCalculateTotalShippingCost ==
    /\ call.fn = "calculateTotalShippingCost"
    /\ returned = NoReturn
    /\ returned' = [totalShippingCostCents |->
                        calculateTotalShippingCost(call.allocatedOrderLines)]
    /\ UNCHANGED call
    /\ EngineIdle

SpecShipping == InitShipping /\ [][CallCalculateTotalShippingCost]_vars

(***************************************************************************)
(* Warehouse Ranker on its own: getWarehousesSortedByShippingCost over     *)
(* any warehouses table.  Warehouses and destinations lie on one meridian; *)
(* a latitude is given as the distance in tenths of a km from a reference  *)
(* point, or is the numeric NaN.                                           *)
(***************************************************************************)
Latitudes == {0, 4, 105, 106}
\* what parseFloat gives for the numeric value NaN
NaN == -1

\* the haversine distance of two points of one meridian, in tenths of a km:
\* exactly 0 for equal coordinates
distanceTenthsKm(lat1, lat2) == IF lat1 >= lat2 THEN lat1 - lat2 ELSE lat2 - lat1

\* the callback of allWarehouses.map for a row with valid coordinates:
\* Math.round(distanceKm * SHIPPING_COST_CENTS_PER_KG_PER_KM)
warehouseWithCost(warehouse, shippingAddrLatitude) ==
    [warehouseId |-> warehouse.id,
     shippingCostCentsPerKg |->
         RoundDiv(distanceTenthsKm(warehouse.latitude, shippingAddrLatitude)
                      * SHIPPING_COST_CENTS_PER_KG_PER_KM, 10)]

\* getWarehousesSortedByShippingCost for the rows allWarehouses, in
\* retrieval order
sortedByShippingCost(allWarehouses, shippingAddrLatitude) ==
    IF Len(allWarehouses) = 0
    THEN [error |-> "none", warehouses |-> <<>>]
    ELSE IF \E i \in 1..Len(allWarehouses) : allWarehouses[i].latitude = NaN
         THEN [error |-> "Error"]
         ELSE [error |-> "none",
               warehouses |-> SortByCost([i \in 1..Len(allWarehouses) |->
                                  warehouseWithCost(allWarehouses[i], shippingAddrLatitude)])]

\* the tables of up to MaxWarehouses rows with distinct ids
WarehouseTables ==
    UNION { {rows \in [1..n -> [id : {"w1", "w2", "w3"}, latitude : Latitudes \cup {NaN}]] :
                \A i, j \in 1..n : i # j => rows[i].id # rows[j].id} : n \in 0..MaxWarehouses }

RankerCalls ==
    [fn : {"getWarehousesSortedByShippingCost"},
     allWarehouses : WarehouseTables,
     shippingAddrLatitude : Latitudes]

InitRanker ==
    /\ config = 15
    /\ InitEngine
    /\ call \in RankerCalls
    /\ returned = NoReturn

CallGetWarehousesSortedByShippingCost ==
    /\ call.fn = "getWarehousesSortedByShippingCost"
    /\ returned = NoReturn
    /\ returned' = sortedByShippingCost(call.allWarehouses, call.shippingAddrLatitude)
    /\ UNCHANGED call
    /\ EngineIdle

SpecRanker == InitRanker /\ [][CallGetWarehousesSortedByShippingCost]_vars

(***************************************************************************)
(* Reservation read on its own: getReservedInventoryByWarehouseForProducts *)
(* inside a transaction that began at call.transactionStartedAt and has    *)
(* run its earlier statement, the locking read of the inventory, which     *)
(* waits for the locks, before it reads the reservations.                  *)
(* CURRENT_TIMESTAMP of PostgreSQL is the start time of the transaction.   *)
(***************************************************************************)
ReservationRows(id) ==
    [id : {id}, status : {"ACTIVE", "EXPIRED", "CONSUMED", "RELEASED"}, expiresAt : {5, 6, 8},
     productId : Products, warehouseId : {"w1"}, quantity : 1..MaxReserved]

ReservationTables ==
    {{a, b} : a \in ReservationRows("r1"), b \in ReservationRows("r2")}

ReservedReadCalls ==
    [fn : {"getReservedInventoryByWarehouseForProducts"},
     reservations : ReservationTables,
     productIds : {{}, {"p1"}, {"p1", "p2"}},
     transactionStartedAt : {5}]

InitReservedRead ==
    /\ config = 15
    /\ InitEngine
    /\ call \in ReservedReadCalls
    /\ returned = NoReturn

\* the locking read of the inventory before the reservation read takes time
EarlierStatementsRun ==
    /\ call.fn = "getReservedInventoryByWarehouseForProducts"
    /\ returned = NoReturn
    /\ now < call.transactionStartedAt + MaxLockWait
    /\ now' = now + 1
    /\ UNCHANGED <<call, returned, config, inventory, reservations, orders, orderLines,
                   inventoryLog, lockedBy, pc, kind, request, currentInventoryByWarehouse,
                   reservedInventoryByWarehouse, updIdx, txInventory, txLog, txOrder, result>>

CallGetReservedInventoryByWarehouseForProducts ==
    /\ call.fn = "getReservedInventoryByWarehouseForProducts"
    /\ returned = NoReturn
    /\ returned' = [readAt |-> now,
                    reservedInventoryByWarehouse |->
                        getReservedInventoryByWarehouseForProducts(
                            call.reservations, call.transactionStartedAt, call.productIds)]
    /\ UNCHANGED call
    /\ EngineIdle

NextReservedRead == EarlierStatementsRun \/ CallGetReservedInventoryByWarehouseForProducts

SpecReservedRead == InitReservedRead /\ [][NextReservedRead]_vars

(***************************************************************************)
(* Direct calls of isShippingCostValid: one call, then a second one with   *)
(* the same price and discount and a cost that is not higher.              *)
(***************************************************************************)
CeilingCalls ==
    [fn : {"isShippingCostValid"},
     totalShippingCostCents : 0..MaxShippingCost,
     overallTotalPriceCents : 0..MaxOrderPrice,
     overallTotalDiscountCents : 0..MaxOrderDiscount]

InitCeiling ==
    /\ config = 15
    /\ InitEngine
    /\ call \in CeilingCalls
    /\ returned = NoReturn

CallIsShippingCostValid ==
    /\ call.fn = "isShippingCostValid"
    /\ returned = NoReturn
    /\ returned' = [valid |-> isShippingCostValid(call.totalShippingCostCents,
                                                  call.overallTotalPriceCents,
                                                  call.overallTotalDiscountCents)]
    /\ UNCHANGED call
    /\ EngineIdle

CallIsShippingCostValidAgain(lowerCost) ==
    /\ call.fn = "isShippingCostValid"
    /\ returned # NoReturn
    /\ DOMAIN returned = {"valid"}
    /\ lowerCost <= call.totalShippingCostCents
    /\ returned' = [valid |-> returned.valid,
                    lowerCost |-> lowerCost,
                    lowerValid |-> isShippingCostValid(lowerCost,
                                                       call.overallTotalPriceCents,
                                                       call.overallTotalDiscountCents)]
    /\ UNCHANGED call
    /\ EngineIdle

NextCeiling ==
    \/ CallIsShippingCostValid
    \/ \E lowerCost \in 0..MaxShippingCost : CallIsShippingCostValidAgain(lowerCost)

SpecCeiling == InitCeiling /\ [][NextCeiling]_vars

(***************************************************************************)
(* Properties.                                                             *)
(***************************************************************************)
Finished(t) == pc[t] \in {"DONE", "FAILED"}
FailedWith(t, error) ==
    pc[t] = "FAILED" /\ result[t] = [status |-> "error", error |-> error]

\* C1: whatever the interleaving of concurrent createWalkInOrder calls and
\* of the decrements issued through the ledger write, the quantity of every
\* inventory row is >= 0 in every committed state, and in what every running
\* transaction has written so far.
C1_QuantityNeverNegative ==
    /\ \A r \in DOMAIN inventory : inventory[r] >= 0
    /\ \A t \in Tx : \A r \in DOMAIN txInventory[t] : txInventory[t][r] >= 0

\* C1 happens: an order has committed a decrement that emptied a row, and a
\* later decrement of that row, issued while the row was empty, was refused
C1_Witness ==
    \E t, u \in Tx : \E r \in Rows :
        /\ t # u
        /\ kind[t] = "order" /\ pc[t] = "DONE"
        /\ \E l \in inventoryLog :
              /\ l.referenceId = t
              /\ <<l.productId, l.warehouseId>> = r
              /\ l.newQuantity = 0
        /\ inventory[r] = 0
        /\ kind[u] = "ledger"
        /\ FailedWith(u, FailedToUpdateInventory)
        /\ <<request[u].updates[1].productId, request[u].updates[1].warehouseId>> = r

\* C2: a createWalkInOrder call that fails, at whatever step (product not
\* found, insufficient inventory, shipping cost exceeded, a failing
\* decrement, a failing insert, a database error), leaves the orders,
\* order_lines, inventory_log and inventory tables as they were: the step at
\* which it fails changes no table, and the only steps that change a table
\* at all are the commits of calls that succeed.
C2_FailedOrderChangesNothing ==
    [][ /\ \A t \in Tx :
              (kind'[t] = "order" /\ pc[t] # "FAILED" /\ pc'[t] = "FAILED")
                  => tables' = tables
        /\ tables' # tables =>
              \E t \in Tx : pc[t] = "COMMITTING" /\ pc'[t] = "DONE"
      ]_vars

\* C2 happens: an order failed after decrements had been applied inside its
\* transaction, and the inventory is the seeded one
C2_Witness ==
    \E t \in Tx :
        /\ kind[t] = "order"
        /\ pc[t] = "FAILED"
        /\ updIdx[t] > 0
        /\ inventory = InitialInventory
        /\ inventoryLog = {} /\ orders = {} /\ orderLines = {}

\* the result of a failed database statement
DatabaseFailure == [status |-> "error", error |-> DatabaseError]

\* the step in which call t runs performInventoryAllocation (the reservation
\* read just before it has not failed)
AllocationStep(t) ==
    /\ pc[t] = "RESERVED"
    /\ pc'[t] # "RESERVED"
    /\ result'[t] # DatabaseFailure

RECURSIVE SumAllocated(_, _)
SumAllocated(lines, p) ==
    IF lines = <<>> THEN 0
    ELSE (IF Head(lines).productId = p THEN Head(lines).allocatedQuantity ELSE 0)
         + SumAllocated(Tail(lines), p)

\* an allocation that meets every requested quantity exactly, each line with
\* its inventory update of the same product, warehouse and quantity
AllocationIsExact(productDetails, a) ==
    /\ \A i \in 1..Len(productDetails.keys) :
          LET p == productDetails.keys[i] IN
          SumAllocated(a.allocatedOrderLines, p) = productDetails.details[p].requestedQuantity
    /\ Len(a.inventoryUpdates) = Len(a.allocatedOrderLines)
    /\ \A i \in 1..Len(a.allocatedOrderLines) :
          /\ a.allocatedOrderLines[i].allocatedQuantity > 0
          /\ a.inventoryUpdates[i] =
                 [productId |-> a.allocatedOrderLines[i].productId,
                  warehouseId |-> a.allocatedOrderLines[i].warehouseId,
                  quantityToDecrement |-> a.allocatedOrderLines[i].allocatedQuantity]

\* C3: when performInventoryAllocation succeeds, the allocated quantities of
\* each product sum to its requested quantity and inventoryUpdates carries
\* the same quantities; when it fails, the call fails with
\* InsufficientInventoryError and no inventory row has been changed, in the
\* table or inside the transaction.
C3_AllocationAllOrNothing ==
    [][ \A t \in Tx : AllocationStep(t) =>
            LET a == allocationOf(t, currentInventoryByWarehouse[t],
                                  reservedInventoryByWarehouse'[t])
            IN IF a.error = "none"
               THEN AllocationIsExact(productDetailsMap(t), a)
               ELSE /\ inventory' = inventory
                    /\ txInventory'[t] = NoRows
                    /\ pc'[t] = "FAILED"
                    /\ result'[t] = [status |-> "error", error |-> "InsufficientInventoryError"]
      ]_vars

\* C3 happens: one call was allocated a product from two warehouses, and
\* another call's allocation failed
C3_Witness ==
    \E t, u \in Tx :
        /\ pc[t] \in {"UPDATING", "INSERTING", "COMMITTING", "DONE"}
        /\ kind[t] \in {"order", "feasibility"}
        /\ \E i, j \in 1..Len(allocationResult(t).allocatedOrderLines) :
              /\ i # j
              /\ allocationResult(t).allocatedOrderLines[i].productId
                     = allocationResult(t).allocatedOrderLines[j].productId
        /\ FailedWith(u, "InsufficientInventoryError")

\* the committed tables as a record
CurrentTables ==
    [inventory |-> inventory, orders |-> orders,
     orderLines |-> orderLines, inventoryLog |-> inventoryLog]
InitialTables ==
    [inventory |-> InitialInventory, orders |-> {}, orderLines |-> {}, inventoryLog |-> {}]

\* the update items of call u applied one after the other, from item i on,
\* to the inventory inv with nothing else running
RECURSIVE SerialUpdates(_, _, _, _, _)
SerialUpdates(u, ups, i, inv, log) ==
    IF i > Len(ups) THEN [ok |-> TRUE, inventory |-> inv, log |-> log]
    ELSE IF ups[i].quantityToDecrement <= 0 THEN SerialUpdates(u, ups, i + 1, inv, log)
    ELSE LET r == <<ups[i].productId, ups[i].warehouseId>>
             exists == r \in DOMAIN inv
             upd == updateInventoryRow(exists, IF exists THEN inv[r] ELSE 0,
                                       ups[i].quantityToDecrement)
         IN IF upd.updatedRows = 0
            THEN [ok |-> FALSE, inventory |-> inv, log |-> log]
            ELSE SerialUpdates(u, ups, i + 1, [inv EXCEPT ![r] = upd.newQuantity],
                               log \cup {inventoryLogRow(u, i, ups[i], upd.newQuantity,
                                                         orderIdOf(u))})

\* call u run alone, from start to end, on the tables tabs: the tables it
\* leaves and what it returns.  A call that failed on the database is run
\* as failing on the database.
SerialCall(u, tabs) ==
    LET failed(error) == [tables |-> tabs, result |-> [status |-> "error", error |-> error]]
        cur == getInventoryForProducts(tabs.inventory, productIds(u))
        rsv == getReservedInventoryByWarehouseForProducts(reservations, now, productIds(u))
        a == allocationOf(u, cur, rsv)
        done == SerialUpdates(u, a.inventoryUpdates, 1, tabs.inventory, {})
        rows == orderRows(u, a)
    IN IF result[u] = DatabaseFailure THEN failed(DatabaseError)
       ELSE IF productDetailsMap(u).error # "none" THEN failed("ProductNotFoundError")
       ELSE IF a.error # "none" THEN failed("InsufficientInventoryError")
       ELSE IF kind[u] = "feasibility" THEN [tables |-> tabs, result |-> responseOf(u, a)]
       ELSE IF ~orderShippingIsValid(u, a) THEN failed("ShippingCostExceededError")
       ELSE IF ~done.ok THEN failed(FailedToUpdateInventory)
       ELSE [tables |-> [inventory |-> done.inventory,
                         orders |-> tabs.orders \cup rows.header,
                         orderLines |-> tabs.orderLines \cup rows.lines,
                         inventoryLog |-> tabs.inventoryLog \cup done.log],
             result |-> responseOf(u, a)]

\* the calls of seq run one after the other from tabs return what they
\* returned in this behaviour and leave the tables as they are now
RECURSIVE SerialMatches(_, _)
SerialMatches(seq, tabs) ==
    IF seq = <<>> THEN tabs = CurrentTables
    ELSE LET s == SerialCall(Head(seq), tabs)
         IN s.result = result[Head(seq)] /\ SerialMatches(Tail(seq), s.tables)

\* the orders in which the calls of the set S can be run one after the other
SerialOrders(S) ==
    {f \in [1..Cardinality(S) -> S] : \A i, j \in 1..Cardinality(S) : f[i] = f[j] => i = j}

\* call t is past its locked read and its transaction has not ended
HoldsReadLocks(t) ==
    /\ kind[t] \in {"order", "feasibility"}
    /\ pc[t] \in {"RESERVED", "UPDATING", "INSERTING", "COMMITTING"}

PhysicalStock(p, w) == IF <<p, w>> \in DOMAIN inventory THEN inventory[<<p, w>>] ELSE 0
\* stock of p at w held by reservations that are ACTIVE and not expired
ReservedStock(p, w) ==
    SumQuantity({r \in reservations : /\ r.status = "ACTIVE" /\ r.expiresAt > now
                                      /\ r.productId = p /\ r.warehouseId = w})
RECURSIVE AllocatableIn(_, _)
AllocatableIn(p, ws) ==
    IF ws = {} THEN 0
    ELSE LET w == CHOOSE x \in ws : TRUE
         IN Max(0, PhysicalStock(p, w) - ReservedStock(p, w)) + AllocatableIn(p, ws \ {w})
\* the sum over the warehouses of max(0, physical - reserved)
AllocatableStock(p) == AllocatableIn(p, WarehouseIds)

\* the step in which the outcome of order call t is decided: its rejection
\* before the transaction, or its allocation and shipping validation
OrderDecided(t) ==
    /\ kind'[t] = "order"
    /\ \/ pc[t] = "idle" /\ pc'[t] = "FAILED"
       \/ AllocationStep(t)

RejectedWith(t, error) ==
    /\ pc'[t] = "FAILED"
    /\ result'[t] = [status |-> "error", error |-> error]
    /\ tables' = tables
    /\ \A o \in orders' : o.orderId # t

\* C5 as stated: if the quantity of some requested item exceeds the stock
\* allocatable for its product id, createWalkInOrder fails with
\* InsufficientInventoryError, creates no order and leaves inventory as it is.
C5_AsStated ==
    [][ \A t \in Tx :
          (/\ OrderDecided(t)
           /\ \E i \in 1..Len(request'[t].items) :
                 request'[t].items[i].quantity
                     > AllocatableStock(request'[t].items[i].productId))
          => RejectedWith(t, "InsufficientInventoryError")
      ]_vars

\* C5: if every requested product id exists and, for some product, the
\* quantity of the last item naming it exceeds the sum over the warehouses
\* of max(0, physical - reserved), createWalkInOrder fails with
\* InsufficientInventoryError, creates no order and leaves inventory (and
\* every other table) as it is.
C5_ShortfallRejected ==
    [][ \A t \in Tx :
          (/\ OrderDecided(t)
           /\ \A i \in 1..Len(request'[t].items) : request'[t].items[i].productId \in Products
           /\ \E i \in 1..Len(request'[t].items) :
                 /\ \A j \in (i + 1)..Len(request'[t].items) :
                       request'[t].items[j].productId # request'[t].items[i].productId
                 /\ request'[t].items[i].quantity
                        > AllocatableStock(request'[t].items[i].productId))
          => RejectedWith(t, "InsufficientInventoryError")
      ]_vars

\* C5 happens: an order was rejected for a product whose physical stock
\* would have covered it, part of that stock being reserved
C5_Witness ==
    \E t \in Tx : \E i \in 1..Len(request[t].items) :
        LET item == request[t].items[i] IN
        /\ kind[t] = "order"
        /\ FailedWith(t, "InsufficientInventoryError")
        /\ item.quantity > AllocatableStock(item.productId)
        /\ item.quantity <= PhysicalStock(item.productId, "w1")
                              + PhysicalStock(item.productId, "w2")

\* the shipping cost of allocation a for call t is above the ceiling
ExceedsCeiling(t, a) ==
    shippingOf(t, a) > maxAllowedShippingCost(totals(t).overallTotalPriceCents
                                               - totals(t).overallTotalDiscountCents)

\* C6: when the allocation succeeds but the shipping cost is above the
\* ceiling, createWalkInOrder fails with ShippingCostExceededError and
\* checkFeasibility returns isValid = false without throwing; neither
\* changes a table.
C6_CeilingRejects ==
    [][ \A t \in Tx :
          LET a == allocationOf(t, currentInventoryByWarehouse[t],
                                reservedInventoryByWarehouse'[t])
          IN /\ (AllocationStep(t) /\ a.error = "none" /\ ExceedsCeiling(t, a))
                    => IF kind[t] = "order"
                       THEN RejectedWith(t, "ShippingCostExceededError")
                       ELSE pc'[t] = "COMMITTING" /\ tables' = tables
             /\ (/\ kind[t] = "feasibility" /\ pc[t] = "COMMITTING" /\ pc'[t] = "DONE"
                 /\ ExceedsCeiling(t, allocationResult(t)))
                    => /\ result'[t].status = "ok"
                       /\ result'[t].isValid = FALSE
                       /\ tables' = tables
      ]_vars

\* C6 happens: an order was rejected for its shipping cost and a
\* feasibility check of the same request returned isValid = false
C6_Witness ==
    \E t, u \in Tx :
        /\ kind[t] = "order" /\ FailedWith(t, "ShippingCostExceededError")
        /\ kind[u] = "feasibility" /\ pc[u] = "DONE"
        /\ request[u] = request[t]
        /\ result[u].isValid = FALSE
        /\ CurrentTables = InitialTables

\* C7 as stated: the ceiling is the configured
\* SHIPPING_COST_MAX_PERCENTAGE_OF_ORDER_VALUE p: an order whose allocation
\* succeeded is rejected with ShippingCostExceededError exactly when its
\* shipping cost is above floor(p / 100 * (price - discount)).
C7_ConfiguredCeiling ==
    [][ \A t \in Tx :
          LET a == allocationOf(t, currentInventoryByWarehouse[t],
                                reservedInventoryByWarehouse'[t])
              discounted == totals(t).overallTotalPriceCents
                                - totals(t).overallTotalDiscountCents
          IN (AllocationStep(t) /\ kind[t] = "order" /\ a.error = "none")
                 => (RejectedWith(t, "ShippingCostExceededError")
                        <=> shippingOf(t, a) > (config * discounted) \div 100)
      ]_vars

\* C8: checkFeasibility never writes, whatever its outcome: no step of a
\* feasibility call, its commit and its rollback included, changes a row of
\* inventory, orders, order_lines or inventory_log, and its transaction
\* never holds a write.
C8_FeasibilityNeverWrites ==
    [][ \A t \in Tx :
          (kind'[t] = "feasibility" /\ pc'[t] # pc[t])
              => /\ tables' = tables
                 /\ txInventory'[t] = NoRows
                 /\ txLog'[t] = <<>>
                 /\ txOrder'[t] = NoOrder
      ]_vars

\* C8 happens: a check that returned isValid = true and a check that threw
\* have both ended, and the tables are the seeded ones
C8_Witness ==
    \E t, u \in Tx :
        /\ kind[t] = "feasibility" /\ pc[t] = "DONE" /\ result[t].isValid
        /\ kind[u] = "feasibility" /\ FailedWith(u, "InsufficientInventoryError")
        /\ CurrentTables = InitialTables

\* a feasibility call that has ended otherwise than on a database failure or
\* an unknown product: it has run the allocation
FeasibilityAnswered(t) ==
    /\ kind[t] = "feasibility"
    /\ Finished(t)
    /\ result[t] # DatabaseFailure
    /\ productDetailsMap(t).error = "none"

C10_FeasibilityPredictsOrder ==
    \A f, o \in Tx :
        (/\ FeasibilityAnswered(f)
         /\ kind[o] = "order" /\ Finished(o) /\ result[o] # DatabaseFailure
         /\ request[o] = request[f]
         /\ currentInventoryByWarehouse[o] = currentInventoryByWarehouse[f]
         /\ reservedInventoryByWarehouse[o] = reservedInventoryByWarehouse[f])
        => IF pc[f] = "DONE"
           THEN /\ (pc[o] = "DONE") = result[f].isValid
                /\ pc[o] = "DONE" =>
                      /\ result[o].totalPriceCents = result[f].totalPriceCents
                      /\ result[o].discountCents = result[f].discountCents
                      /\ result[o].shippingCostCents = result[f].shippingCostCents
                      /\ \E h \in orders :
                            /\ h.orderId = result[o].orderId
                            /\ h.totalPriceCents = result[f].totalPriceCents
                            /\ h.discountCents = result[f].discountCents
                            /\ h.shippingCostCents = result[f].shippingCostCents
                /\ pc[o] = "FAILED" => FailedWith(o, "ShippingCostExceededError")
           ELSE result[o] = result[f]

\* C10 happens: a check returned isValid = true and the order of the same
\* request, placed after it, was created
C10_Witness ==
    \E f, o \in Tx :
        /\ f < o
        /\ FeasibilityAnswered(f) /\ pc[f] = "DONE" /\ result[f].isValid
        /\ kind[o] = "order" /\ pc[o] = "DONE"
        /\ request[o] = request[f]
        /\ Len(request[o].items) > 1

\* call t names a product id that has no products row
NamesUnknownProduct(t) ==
    \E i \in 1..Len(request[t].items) : request[t].items[i].productId \notin Products

\* C11: if any requested product id does not exist, pricing fails with
\* ProductNotFoundError for the whole request and returns no cost details for
\* any product, the existing ones included; createWalkInOrder then fails
\* before a transaction is opened or an inventory row is read or locked, and
\* no order is created.
C11_UnknownProductRejectsAll ==
    \A t \in Tx : (kind[t] = "order" /\ NamesUnknownProduct(t)) =>
        /\ productDetailsMap(t).error = "ProductNotFoundError"
        /\ productDetailsMap(t).keys = <<>>
        /\ DOMAIN productDetailsMap(t).details = {}
        /\ FailedWith(t, "ProductNotFoundError")
        /\ \A r \in Rows : lockedBy[r] # t
        /\ currentInventoryByWarehouse[t] = NoRows
        /\ reservedInventoryByWarehouse[t] = NoRows
        /\ txInventory[t] = NoRows /\ txLog[t] = <<>> /\ txOrder[t] = NoOrder
        /\ \A o \in orders : o.orderId # t
        /\ \A l \in inventoryLog : l.referenceId # t

\* C11 happens: an order naming an existing and an unknown product was
\* rejected while another call held the rows of the existing product locked
C11_Witness ==
    \E t, u \in Tx :
        /\ kind[t] = "order"
        /\ NamesUnknownProduct(t)
        /\ \E i \in 1..Len(request[t].items) : request[t].items[i].productId = "p1"
        /\ pc[t] = "FAILED"
        /\ u # t
        /\ lockedBy[<<"p1", "w1">>] = u

\* an order line and an inventory_log row record the same allocation line
SameAllocationLine(line, log) ==
    /\ log.referenceId = line.orderId
    /\ log.productId = line.productId
    /\ log.warehouseId = line.warehouseId
    /\ log.quantityChange = -line.quantity
    /\ log.changeType = "ORDER_FULFILLMENT"

\* C12: in every committed state the order record and the audit trail are
\* in lockstep: an orders row with id o exists exactly when inventory_log
\* rows with referenceId o exist, every order line belongs to an orders row,
\* and for each order every order line has exactly one inventory_log row and
\* every inventory_log row exactly one order line, agreeing on product,
\* warehouse and quantity (quantityChange = -quantity, ORDER_FULFILLMENT).
C12_OrderAndLogInLockstep ==
    /\ \A o \in orders : \E l \in inventoryLog : l.referenceId = o.orderId
    /\ \A l \in inventoryLog : \E o \in orders : o.orderId = l.referenceId
    /\ \A line \in orderLines :
          /\ Cardinality({o \in orders : o.orderId = line.orderId}) = 1
          /\ line.quantity > 0
          /\ Cardinality({l \in inventoryLog : SameAllocationLine(line, l)}) = 1
    /\ \A l \in inventoryLog :
          Cardinality({line \in orderLines : SameAllocationLine(line, l)}) = 1

\* C12 happens: two orders are committed, one of them drawn from two
\* warehouses, with as many order lines as inventory_log rows
C12_Witness ==
    /\ Cardinality(orders) = 2
    /\ \E a, b \in orderLines :
          a.orderId = b.orderId /\ a.productId = b.productId /\ a.warehouseId # b.warehouseId
    /\ Cardinality(orderLines) = Cardinality(inventoryLog)
    /\ Cardinality(orderLines) >= 3

\* the step in which order call t commits
OrderCommits(t) == kind[t] = "order" /\ pc[t] = "COMMITTING" /\ pc'[t] = "DONE"

\* C13 as stated: for every committed order and every (product, warehouse)
\* it draws from, the quantity taken is at most the physical stock minus the
\* quantity held by ACTIVE, unexpired reservations at the time of commit,
\* whatever other actors do to reservations meanwhile.
C13_AsStated ==
    [][ \A t \in Tx : OrderCommits(t) =>
          \A i \in 1..Len(txLog[t]) :
              -txLog[t][i].quantityChange
                  <= PhysicalStock(txLog[t][i].productId, txLog[t][i].warehouseId)
                     - ReservedStock(txLog[t][i].productId, txLog[t][i].warehouseId)
      ]_vars

\* C13: for every committed order and every (product, warehouse) it draws
\* from, the quantity taken is at most the physical stock at the time of
\* commit minus the quantity held by the ACTIVE, unexpired reservations that
\* the order's own reservation read returned; a reservation created after
\* that read is not counted.  For every interleaving with concurrent orders
\* and with reservations created or expired by other actors.
C13_WithinStockAndHoldsRead ==
    [][ \A t \in Tx : OrderCommits(t) =>
          \A i \in 1..Len(txLog[t]) :
              -txLog[t][i].quantityChange
                  <= PhysicalStock(txLog[t][i].productId, txLog[t][i].warehouseId)
                     - Lookup(reservedInventoryByWarehouse[t],
                              txLog[t][i].warehouseId, txLog[t][i].productId)
      ]_vars

\* C13 happens: an order is committed that drew from a row on which another
\* actor created a reservation during the behaviour
C13_Witness ==
    \E t \in Tx : \E l \in inventoryLog : \E r \in reservations :
        /\ kind[t] = "order" /\ pc[t] = "DONE"
        /\ l.referenceId = t
        /\ r \notin InitialReservations /\ r.status = "ACTIVE"
        /\ r.productId = l.productId /\ r.warehouseId = l.warehouseId

(***************************************************************************)
(* C14: every allocation line takes at least one unit and at most the      *)
(* physical stock minus the reserved stock of its (product, warehouse) in  *)
(* the snapshots passed in, a missing entry counting as 0; so no line      *)
(* draws from a warehouse where that difference is zero or negative.       *)
(***************************************************************************)
AllocatorReturned ==
    /\ call.fn = "performInventoryAllocation"
    /\ returned # NoReturn
    /\ returned.error = "none"

\* physicalStock - reservedStock of a (product, warehouse) in the snapshots of the call
SnapshotAvailable(p, w) ==
    (IF <<w, p>> \in DOMAIN call.currentInventoryByWarehouse
     THEN call.currentInventoryByWarehouse[<<w, p>>] ELSE 0)
    - (IF <<w, p>> \in DOMAIN call.reservedInventoryByWarehouse
       THEN call.reservedInventoryByWarehouse[<<w, p>>] ELSE 0)

C14_LinesWithinAvailable ==
    AllocatorReturned =>
        \A i \in 1..Len(returned.allocatedOrderLines) :
            LET line == returned.allocatedOrderLines[i] IN
            /\ line.allocatedQuantity >= 1
            /\ line.allocatedQuantity <= SnapshotAvailable(line.productId, line.warehouseId)
            /\ SnapshotAvailable(line.productId, line.warehouseId) > 0

\* two units of p1 split over both warehouses, the first one holding a
\* reservation that leaves one unit, while p2 skips a warehouse that has
\* stock but all of it reserved
C14_Witness ==
    /\ AllocatorReturned
    /\ Len(returned.allocatedOrderLines) = 3
    /\ \E i \in 1..3 :
           LET line == returned.allocatedOrderLines[i] IN
           /\ line.productId = "p1"
           /\ line.allocatedQuantity = 1
           /\ <<line.warehouseId, "p1">> \in DOMAIN call.reservedInventoryByWarehouse
           /\ call.currentInventoryByWarehouse[<<line.warehouseId, "p1">>] = 2
    /\ \E w \in WarehouseIds :
           /\ <<w, "p2">> \in DOMAIN call.currentInventoryByWarehouse
           /\ call.currentInventoryByWarehouse[<<w, "p2">>] > 0
           /\ SnapshotAvailable("p2", w) <= 0
    /\ \E w \in WarehouseIds : <<w, "p1">> \notin DOMAIN call.reservedInventoryByWarehouse

(***************************************************************************)
(* C15: the discount percentage resolved for a product is that of the      *)
(* tier of that product with the highest threshold not above the requested *)
(* quantity, and 0 when there is none; with the tiers 25 -> 5, 50 -> 10,   *)
(* 100 -> 15, 250 -> 20 a quantity of 24 gives 0, 25 gives 5, 49 gives 5   *)
(* and 100 gives 15; the tiers of the other products of the request play   *)
(* no part.                                                                *)
(***************************************************************************)
PricingReturned ==
    /\ call.fn = "calculateProductCostsWithDiscounts"
    /\ returned # NoReturn
    /\ returned.error = "none"

\* the tiers of product p that quantity q reaches
TiersReached(p, q) ==
    {d \in call.dbx.volumeDiscounts : d.productId = p /\ d.threshold <= q}

C15_HighestReachedTier ==
    PricingReturned =>
        \A p \in DOMAIN returned.details :
            LET entry == returned.details[p]
                q == entry.requestedQuantity
                reached == TiersReached(p, q)
                own == {d \in call.dbx.volumeDiscounts : d.productId = p}
            IN /\ reached = {} => entry.discountPercentage = 0
               /\ reached # {} =>
                      \E d \in reached :
                          /\ \A e \in reached : e.threshold <= d.threshold
                          /\ entry.discountPercentage = d.discountPercentage
               /\ own = seedTiers(p) =>
                      /\ q = 24 => entry.discountPercentage = 0
                      /\ q = 25 => entry.discountPercentage = 500
                      /\ q = 49 => entry.discountPercentage = 500
                      /\ q = 100 => entry.discountPercentage = 1500

\* 49 units of a product with the seeded tiers next to 2 units of a product
\* whose tier for 2 is lower than its tier for 1
C15_Witness ==
    /\ PricingReturned
    /\ call.dbx.volumeDiscounts = seedTiers("p1") \cup steepTiers("p2")
    /\ DOMAIN returned.details = {"p1", "p2"}
    /\ returned.details["p1"].requestedQuantity = 49
    /\ returned.details["p1"].discountPercentage = 500
    /\ returned.details["p2"].requestedQuantity = 2
    /\ returned.details["p2"].discountPercentage = 250

(***************************************************************************)
(* C16: for every priced product the total cost is the unit price times    *)
(* the requested quantity, the total discount is that total times the      *)
(* percentage over 100 rounded to the nearest cent with halves going up,   *)
(* the discounted total is their difference, and the discount lies between *)
(* 0 and the total for a percentage between 0 and 100; the overall totals  *)
(* are the sums of the per-product totals and discounts.                   *)
(***************************************************************************)
RECURSIVE SumOfEntries(_, _, _)
SumOfEntries(ps, details, field) ==
    IF ps = {} THEN 0
    ELSE LET p == CHOOSE x \in ps : TRUE
         IN details[p][field] + SumOfEntries(ps \ {p}, details, field)

\* everything the claim says but the rounding of the discount
PricedArithmetic(roundingToo) ==
    PricingReturned =>
        /\ \A p \in DOMAIN returned.details :
               LET entry == returned.details[p] IN
               /\ entry.totalProductCostCents =
                      call.dbx.products[p].unitPriceCents * entry.requestedQuantity
               /\ roundingToo =>
                      entry.totalDiscountCents =
                          (2 * entry.totalProductCostCents * entry.discountPercentage + 10000)
                              \div 20000
               /\ entry.totalDiscountedProductCostCents =
                      entry.totalProductCostCents - entry.totalDiscountCents
               /\ (entry.discountPercentage >= 0 /\ entry.discountPercentage <= 10000) =>
                      /\ entry.totalDiscountCents >= 0
                      /\ entry.totalDiscountCents <= entry.totalProductCostCents
        /\ "totals" \in DOMAIN returned =>
               /\ returned.totals.overallTotalPriceCents =
                      SumOfEntries(DOMAIN returned.details, returned.details,
                                   "totalProductCostCents")
               /\ returned.totals.overallTotalDiscountCents =
                      SumOfEntries(DOMAIN returned.details, returned.details,
                                   "totalDiscountCents")

C16_PriceArithmetic == PricedArithmetic(TRUE)

\* the same without the rounding of the discount
C16_ArithmeticButRounding == PricedArithmetic(FALSE)

(***************************************************************************)
(* C17: calculateTotalShippingCost returns the sum over the lines of       *)
(* ceil(allocatedQuantity x weightGrams x shippingCostCentsPerKg / 1000),  *)
(* each line rounded up on its own and 0 for no line, so the total is      *)
(* never below the exact cost.                                             *)
(***************************************************************************)
ShippingReturned ==
    /\ call.fn = "calculateTotalShippingCost"
    /\ returned # NoReturn

\* the exact cost of the lines, in thousandths of a cent
RECURSIVE ExactMilliCents(_)
ExactMilliCents(lines) ==
    IF lines = <<>> THEN 0
    ELSE Head(lines).allocatedQuantity * Head(lines).productWeightGrams
             * Head(lines).shippingCostCentsPerKg
         + ExactMilliCents(Tail(lines))

\* the sum of the exact costs of the lines, each rounded up to a cent
RECURSIVE SumOfCeilings(_)
SumOfCeilings(lines) ==
    IF lines = <<>> THEN 0
    ELSE (ExactMilliCents(<<Head(lines)>>) + 999) \div 1000 + SumOfCeilings(Tail(lines))

C17_SumOfLineCeilings ==
    ShippingReturned =>
        /\ returned.totalShippingCostCents = SumOfCeilings(call.allocatedOrderLines)
        /\ 1000 * returned.totalShippingCostCents >= ExactMilliCents(call.allocatedOrderLines)

\* the part that holds: never below the exact cost, and 0 for no line
C17_NeverBelowExact ==
    ShippingReturned =>
        /\ 1000 * returned.totalShippingCostCents >= ExactMilliCents(call.allocatedOrderLines)
        /\ returned.totalShippingCostCents <=
               SumOfCeilings(call.allocatedOrderLines) + Len(call.allocatedOrderLines)
        /\ call.allocatedOrderLines = <<>> => returned.totalShippingCostCents = 0

(***************************************************************************)
(* C18: isShippingCostValid(cost, price, discount) is true exactly when    *)
(* price - discount > 0 and cost <= floor(0.15 x (price - discount)), a    *)
(* cost equal to that limit passing, or price - discount <= 0 and          *)
(* cost = 0.                                                               *)
(***************************************************************************)
CeilingReturned ==
    /\ call.fn = "isShippingCostValid"
    /\ returned # NoReturn

DiscountedPriceOfCall == call.overallTotalPriceCents - call.overallTotalDiscountCents

\* cost <= floor(0.15 x d) for whole numbers: 100 x cost <= 15 x d
C18_ValidExactlyWithinCeiling ==
    CeilingReturned =>
        (returned.valid <=>
            \/ /\ DiscountedPriceOfCall > 0
               /\ 100 * call.totalShippingCostCents <= 15 * DiscountedPriceOfCall
            \/ /\ DiscountedPriceOfCall <= 0
               /\ call.totalShippingCostCents = 0)

\* a cost equal to a limit that rounding to the nearest cent would raise
C18_Witness ==
    /\ CeilingReturned
    /\ returned.valid
    /\ call.totalShippingCostCents > 0
    /\ 100 * call.totalShippingCostCents <= 15 * DiscountedPriceOfCall
    /\ 100 * call.totalShippingCostCents + 50 <= 15 * DiscountedPriceOfCall
    /\ 100 * (call.totalShippingCostCents + 1) > 15 * DiscountedPriceOfCall

(***************************************************************************)
(* C19: isShippingCostValid is monotonic in the cost: with the price and   *)
(* the discount fixed and costs c1 <= c2, both at least 0, a valid c2      *)
(* means a valid c1.                                                       *)
(***************************************************************************)
C19_MonotonicInCost ==
    (CeilingReturned /\ "lowerValid" \in DOMAIN returned) =>
        (returned.valid => returned.lowerValid)

\* a cost at the limit is valid and so is a lower one, while a higher one is not
C19_Witness ==
    /\ CeilingReturned
    /\ "lowerValid" \in DOMAIN returned
    /\ returned.valid
    /\ returned.lowerValid
    /\ returned.lowerCost < call.totalShippingCostCents
    /\ 100 * (call.totalShippingCostCents + 1) > 15 * DiscountedPriceOfCall
    /\ DiscountedPriceOfCall > 0

(***************************************************************************)
(* C20: the failures are typed and the HTTP layer maps them by type: a     *)
(* ProductNotFoundError is answered with status 400, an                    *)
(* InsufficientInventoryError with 409, a ShippingCostExceededError with   *)
(* 400 and an error that is not an ApiError (a decrement matching no row,  *)
(* a database failure) with 500; a feasibility check whose shipping cost   *)
(* is above the ceiling is answered with 200 and isValid = false.          *)
(***************************************************************************)
HttpRequestSettled(t) == kind[t] \in {"order", "feasibility"} /\ Finished(t)

C20_WitnessConflict ==
    \E t, u \in Tx :
        /\ FailedWith(t, "InsufficientInventoryError") /\ httpStatus(t) = 409
        /\ FailedWith(u, DatabaseError) /\ httpStatus(u) = 500


(***************************************************************************)
(* C21: in createWalkInOrder, with the engine the only writer of           *)
(* inventory, the conditional decrement never matches zero rows: every     *)
(* update item still to be written targets an existing row whose quantity, *)
(* as the transaction sees it, is at least the amount, and so no order     *)
(* fails with "Failed to update inventory", whatever other orders and      *)
(* feasibility checks do meanwhile.                                        *)
(***************************************************************************)
PendingItemMatches(t, j) ==
    LET update == updates(t)[j]
        r == <<update.productId, update.warehouseId>>
    IN update.quantityToDecrement > 0 =>
          /\ r \in DOMAIN inventory
          /\ visibleQuantity(t, r) >= update.quantityToDecrement

C21_DecrementAlwaysMatches ==
    \A t \in Tx :
        kind[t] = "order" =>
            /\ ~FailedWith(t, FailedToUpdateInventory)
            /\ pc[t] = "UPDATING" =>
                  \A j \in (updIdx[t] + 1)..Len(updates(t)) : PendingItemMatches(t, j)

\* an order has written a decrement of a product of which another order,
\* already committed, took stock before
C21_Witness ==
    \E t, u \in Tx :
        /\ t # u
        /\ kind[t] = "order" /\ Len(txLog[t]) > 0
        /\ kind[u] = "order" /\ pc[u] = "DONE"
        /\ \E l \in inventoryLog : l.productId = txLog[t][1].productId



(***************************************************************************)
(* C22: updateInventoryAndLogChanges throws for an item whose row is       *)
(* missing or whose current quantity is less than the amount; run in a     *)
(* transaction, once an item has failed no item of the call has its        *)
(* decrement applied and no InventoryLog row of the call exists after the  *)
(* transaction ends, the items processed before the failing one included.  *)
(***************************************************************************)
\* the item the update loop of call t comes to next (0: none is left)
NextItem(t) ==
    LET j == NextPositive(updates(t), updIdx[t] + 1)
    IN IF pc[t] = "UPDATING" /\ j <= Len(updates(t)) THEN j ELSE 0

\* the row item j of call t names
ItemRow(t, j) == <<updates(t)[j].productId, updates(t)[j].warehouseId>>

\* call t has made a step of its own
Stepped(t) == pc'[t] # pc[t] \/ updIdx'[t] # updIdx[t]

\* sum of the quantityChange of a set of log rows
RECURSIVE SumQuantityChange(_)
SumQuantityChange(rows) ==
    IF rows = {} THEN 0
    ELSE LET l == CHOOSE l \in rows : TRUE
         IN l.quantityChange + SumQuantityChange(rows \ {l})

\* the committed log rows of the row r of inventory
LogRowsOf(r) == {l \in inventoryLog : <<l.productId, l.warehouseId>> = r}

\* the step on an item that cannot be applied throws, unless the database
\* itself fails the statement
FailingItemThrows ==
    \A t \in Tx :
        (/\ kind[t] = "ledger"
         /\ NextItem(t) # 0
         /\ ~PendingItemMatches(t, NextItem(t))
         /\ Stepped(t))
        => (FailedWith(t, FailedToUpdateInventory)' \/ FailedWith(t, DatabaseError)')

\* a call that has thrown has left nothing behind
FailedCallLeftNothing ==
    \A t \in Tx :
        (kind[t] = "ledger" /\ pc[t] = "FAILED") =>
            /\ \A l \in inventoryLog : l.id[1] # t
            /\ txLog[t] = <<>> /\ txInventory[t] = NoRows
            /\ \A r \in DOMAIN inventory :
                  inventory[r] = InitialInventory[r] + SumQuantityChange(LogRowsOf(r))

C22_FailureRollsBackWholeCall == [][FailingItemThrows]_vars /\ []FailedCallLeftNothing

\* a call of two items has thrown on its second item, the first one applied
C22_Witness ==
    \E t \in Tx :
        /\ kind[t] = "ledger"
        /\ FailedWith(t, FailedToUpdateInventory)
        /\ Len(updates(t)) = 2 /\ updIdx[t] = 1
        /\ updates(t)[1].quantityToDecrement > 0


(***************************************************************************)
(* C23: every item with an amount > 0 that is applied sets the quantity of *)
(* its row to the old quantity minus the amount and appends exactly one    *)
(* InventoryLog row, with quantityChange = -amount, newQuantity the        *)
(* quantity just written, changeType ORDER_FULFILLMENT and referenceId the *)
(* order id given; the rows of pairs that are not listed stay as they are. *)
(***************************************************************************)
\* the quantity of row r as transaction t sees it after the step
visibleQuantityAfter(t, r) ==
    IF r \in DOMAIN txInventory'[t] THEN txInventory'[t][r] ELSE inventory'[r]

\* the step of call t has applied the item it had come to
AppliesItem(t) ==
    /\ NextItem(t) # 0
    /\ Stepped(t)
    /\ pc'[t] # "FAILED"

ItemAppliedExactly(t) ==
    LET j == NextItem(t)
        update == updates(t)[j]
        r == ItemRow(t, j)
        logged == txLog'[t][Len(txLog'[t])]
    IN /\ visibleQuantityAfter(t, r) = visibleQuantity(t, r) - update.quantityToDecrement
       /\ \A o \in DOMAIN inventory \ {r} : visibleQuantityAfter(t, o) = visibleQuantity(t, o)
       /\ Len(txLog'[t]) = Len(txLog[t]) + 1
       /\ SubSeq(txLog'[t], 1, Len(txLog[t])) = txLog[t]
       /\ <<logged.productId, logged.warehouseId>> = r
       /\ logged.quantityChange = -update.quantityToDecrement
       /\ logged.newQuantity = visibleQuantityAfter(t, r)
       /\ logged.changeType = "ORDER_FULFILLMENT"
       /\ logged.referenceId = orderIdOf(t)
       /\ inventory' = inventory /\ inventoryLog' = inventoryLog

\* the commit of call t publishes what the call wrote and nothing else
CommitPublishes(t) ==
    (pc[t] = "COMMITTING" /\ pc'[t] = "DONE") =>
        /\ inventoryLog' = inventoryLog \cup {txLog[t][i] : i \in 1..Len(txLog[t])}
        /\ \A r \in DOMAIN inventory : inventory'[r] = visibleQuantity(t, r)
        /\ \A r \in DOMAIN inventory :
              (\A i \in 1..Len(updates(t)) : ItemRow(t, i) # r) => inventory'[r] = inventory[r]

C23_AppliedItemDecrementsAndLogs ==
    [][\A t \in Tx : (AppliesItem(t) => ItemAppliedExactly(t)) /\ CommitPublishes(t)]_vars

\* a call of two items has committed both: two log rows of the call
C23_Witness ==
    \E t \in Tx :
        /\ kind[t] = "ledger" /\ pc[t] = "DONE"
        /\ Cardinality({l \in inventoryLog : l.id[1] = t}) = 2
        /\ \E r \in DOMAIN inventory : inventory[r] = InitialInventory[r]


(***************************************************************************)
(* C24: an update item whose quantityToDecrement is zero or negative never *)
(* changes an inventory quantity and never appends an InventoryLog row; it *)
(* is skipped without an error, and the remaining items of the same call   *)
(* are still processed.                                                    *)
(***************************************************************************)
\* the items of call t with an amount that is zero or negative
SkippedItems(t) ==
    {i \in 1..Len(updates(t)) : updates(t)[i].quantityToDecrement <= 0}

\* the items of call t the loop has dealt with: those up to the last one
\* applied, and all of them once the loop is over
DealtWith(t) ==
    IF pc[t] \in {"COMMITTING", "DONE"} THEN 1..Len(updates(t)) ELSE 1..updIdx[t]

\* the rows call t has written so far, or committed, are those of the items
\* with a positive amount it has dealt with, one log row each
OnlyPositiveItemsWritten(t) ==
    LET written == IF pc[t] = "DONE" THEN {l \in inventoryLog : l.id[1] = t}
                   ELSE {txLog[t][i] : i \in 1..Len(txLog[t])}
    IN {l.id[2] : l \in written} = DealtWith(t) \ SkippedItems(t)

\* no log row, written or committed, records a change that is not a decrement
NoLogRowOfSkippedItem ==
    /\ \A l \in inventoryLog : l.quantityChange < 0
    /\ \A t \in Tx : \A i \in 1..Len(txLog[t]) : txLog[t][i].quantityChange < 0

\* the step of call t on a list whose next items are all skipped changes no
\* quantity; a call does not fail while it has only skipped items
SkippingChangesNothing ==
    \A t \in Tx :
        (kind[t] = "ledger" /\ pc[t] = "UPDATING" /\ NextItem(t) = 0 /\ Stepped(t)) =>
            /\ \A r \in DOMAIN inventory : visibleQuantityAfter(t, r) = visibleQuantity(t, r)
            /\ txLog'[t] = txLog[t]
            /\ pc'[t] = "COMMITTING" \/ FailedWith(t, DatabaseError)'

\* a call that ends with the error of the update has come to an item with a
\* positive amount: a skipped item raises nothing
OnlyPositiveItemFails ==
    \A t \in Tx :
        (kind[t] = "ledger" /\ FailedWith(t, FailedToUpdateInventory)) =>
            \E j \in 1..Len(updates(t)) :
                /\ updates(t)[j].quantityToDecrement > 0
                /\ \A i \in (updIdx[t] + 1)..(j - 1) : i \in SkippedItems(t)

\* a call that is done has dealt with all its items
DoneCallProcessedAll ==
    \A t \in Tx :
        (kind[t] = "ledger" /\ pc[t] \in {"COMMITTING", "DONE"}) =>
            /\ NextPositive(updates(t), updIdx[t] + 1) > Len(updates(t))
            /\ OnlyPositiveItemsWritten(t)

C24_NonPositiveItemsSkipped ==
    /\ [](NoLogRowOfSkippedItem /\ OnlyPositiveItemFails /\ DoneCallProcessedAll)
    /\ [][SkippingChangesNothing]_vars

\* a call whose first item is skipped and whose second item is applied
C24_Witness ==
    \E t \in Tx :
        /\ kind[t] = "ledger" /\ pc[t] = "DONE"
        /\ Len(updates(t)) = 2
        /\ updates(t)[1].quantityToDecrement <= 0
        /\ updates(t)[2].quantityToDecrement > 0
        /\ \E l \in inventoryLog : l.id = <<t, 2>>


(***************************************************************************)
(* C25: the allocation is greedy cheapest-first: the allocation lines of a *)
(* product appear in the order of the ranked warehouses, each line takes   *)
(* min(remaining, available) at its warehouse, and a warehouse is used     *)
(* only if every warehouse ranked before it had its whole available        *)
(* quantity, max(0, physical - reserved), taken for that product; so only  *)
(* the last line of a product may leave available stock at its warehouse.  *)
(***************************************************************************)
\* the lines of product p among the lines returned, in the order returned
LinesOfProduct(p) ==
    SelectSeq(returned.allocatedOrderLines, LAMBDA line : line.productId = p)

\* the place of warehouse w in the ranked list of the call
RankOf(w) ==
    CHOOSE i \in 1..Len(call.sortedWarehouses) : call.sortedWarehouses[i].warehouseId = w

\* max(0, physical - reserved) of product p at warehouse w in the snapshots of the call
AllocatableAt(p, w) == Max(0, SnapshotAvailable(p, w))

\* units of the first n lines of a sequence of lines
RECURSIVE TakenByFirst(_, _)
TakenByFirst(lines, n) ==
    IF n = 0 THEN 0 ELSE lines[n].allocatedQuantity + TakenByFirst(lines, n - 1)

\* units of product p the lines returned take at warehouse w
TakenAt(p, w) ==
    LET lines == SelectSeq(LinesOfProduct(p), LAMBDA line : line.warehouseId = w)
    IN TakenByFirst(lines, Len(lines))

GreedyForProduct(p) ==
    LET lines == LinesOfProduct(p)
        requested == call.productDetailsMap.details[p].requestedQuantity
    IN /\ \A i, j \in 1..Len(lines) :
              i < j => RankOf(lines[i].warehouseId) < RankOf(lines[j].warehouseId)
       /\ \A i \in 1..Len(lines) :
              /\ lines[i].allocatedQuantity =
                    Min(requested - TakenByFirst(lines, i - 1),
                        AllocatableAt(p, lines[i].warehouseId))
              /\ \A k \in 1..(RankOf(lines[i].warehouseId) - 1) :
                    LET before == call.sortedWarehouses[k].warehouseId
                    IN TakenAt(p, before) = AllocatableAt(p, before)
              /\ i < Len(lines) =>
                    lines[i].allocatedQuantity = AllocatableAt(p, lines[i].warehouseId)

C25_GreedyCheapestFirst ==
    AllocatorReturned =>
        \A i \in 1..Len(call.productDetailsMap.keys) :
            GreedyForProduct(call.productDetailsMap.keys[i])

\* p1 is taken from both warehouses, the cheaper one emptied and the other
\* left with stock, and a warehouse with nothing available is passed over
\* for p2
C25_Witness ==
    /\ AllocatorReturned
    /\ Len(LinesOfProduct("p1")) = 2
    /\ LinesOfProduct("p1")[2].allocatedQuantity
          < AllocatableAt("p1", LinesOfProduct("p1")[2].warehouseId)
    /\ Len(LinesOfProduct("p2")) = 1
    /\ RankOf(LinesOfProduct("p2")[1].warehouseId) = 2


(***************************************************************************)
(* C26: performInventoryAllocation fails for the first product, in request *)
(* order, that cannot be fully satisfied; the error names that product,    *)
(* its requested quantity, and an allocatable quantity equal to the sum    *)
(* over all ranked warehouses of max(0, physical - reserved) for that      *)
(* product (0 when the warehouse list is empty or the product is stocked   *)
(* nowhere), which is strictly less than the requested quantity.           *)
(***************************************************************************)
AllocatorFailed ==
    /\ call.fn = "performInventoryAllocation"
    /\ returned # NoReturn
    /\ returned.error = "InventoryAllocationError"

\* sum of max(0, physical - reserved) of product p over the first n ranked warehouses
RECURSIVE AllocatableInFirst(_, _)
AllocatableInFirst(p, n) ==
    IF n = 0 THEN 0
    ELSE AllocatableAt(p, call.sortedWarehouses[n].warehouseId) + AllocatableInFirst(p, n - 1)

TotalAllocatable(p) == AllocatableInFirst(p, Len(call.sortedWarehouses))

RequestedOf(p) == call.productDetailsMap.details[p].requestedQuantity

\* places, in request order, of the products that cannot be fully satisfied
ShortPlaces ==
    {i \in 1..Len(call.productDetailsMap.keys) :
        TotalAllocatable(call.productDetailsMap.keys[i])
            < RequestedOf(call.productDetailsMap.keys[i])}

C26_ErrorNamesFirstShortProduct ==
    (call.fn = "performInventoryAllocation" /\ returned # NoReturn) =>
        /\ AllocatorFailed <=> ShortPlaces # {}
        /\ AllocatorFailed =>
              LET first == CHOOSE i \in ShortPlaces : \A k \in ShortPlaces : i <= k
                  p == call.productDetailsMap.keys[first]
              IN /\ returned.productId = p
                 /\ returned.requested = RequestedOf(p)
                 /\ returned.allocatedForThisProduct = TotalAllocatable(p)
                 /\ returned.allocatedForThisProduct < returned.requested

\* p1 cannot be satisfied from the one unit available at each of the two
\* ranked warehouses
C26_Witness ==
    /\ AllocatorFailed
    /\ returned.productId = "p1"
    /\ returned.allocatedForThisProduct = 2
    /\ \A i \in 1..Len(call.sortedWarehouses) :
          AllocatableAt("p1", call.sortedWarehouses[i].warehouseId) = 1


(***************************************************************************)
(* C27: the audit trail is complete: in every committed state and for      *)
(* every (product, warehouse), the inventory quantity is the initial       *)
(* quantity plus the sum of the quantityChange of all InventoryLog rows of *)
(* the pair, each log row's newQuantity is the quantity of the row right   *)
(* after the mutation it records, and no operation of the engine changes a *)
(* quantity without appending such a row.                                  *)
(***************************************************************************)
\* the log rows of row r that record the mutation of l or an earlier one:
\* decrements only, so the earlier a mutation the higher its newQuantity
UpTo(l, r) == {k \in LogRowsOf(r) : k.newQuantity >= l.newQuantity}

AuditTrailAddsUp ==
    \A r \in DOMAIN inventory :
        /\ inventory[r] = InitialInventory[r] + SumQuantityChange(LogRowsOf(r))
        /\ \A l \in LogRowsOf(r) :
              l.newQuantity = InitialInventory[r] + SumQuantityChange(UpTo(l, r))

\* a committed quantity changes only together with a new log row of it
ChangeIsLogged ==
    \A r \in DOMAIN inventory :
        inventory'[r] # inventory[r] =>
            \E l \in inventoryLog' \ inventoryLog :
                /\ <<l.productId, l.warehouseId>> = r
                /\ l.newQuantity = inventory'[r]

C27_AuditTrailComplete == []AuditTrailAddsUp /\ [][ChangeIsLogged]_vars

\* two orders have each taken stock of the same row
C27_Witness ==
    \E r \in DOMAIN inventory :
        \E l, k \in LogRowsOf(r) :
            /\ l.id[1] # k.id[1]
            /\ l.newQuantity > k.newQuantity
            /\ inventory[r] = k.newQuantity


(***************************************************************************)
(* C28: an order attempt moves through PRICING/RANKING, LOCKING,           *)
(* ALLOCATING, VALIDATING_SHIPPING, COMMITTING, DONE in that order, never  *)
(* skipping a state or returning to an earlier one, FAILED being terminal; *)
(* no inventory decrement, log row or order row is written before both the *)
(* allocation has succeeded and the shipping validation has passed, and    *)
(* the inventory decrement precedes the order insert.                      *)
(***************************************************************************)
\* where an order attempt may be after a step, given where it was: "idle"
\* is PRICING/RANKING, "RESERVED" is ALLOCATING and VALIDATING_SHIPPING
\* (one synchronous stretch), "UPDATING", "INSERTING" and "COMMITTING" are
\* the writes of COMMITTING in the order the code makes them
OrderMayMoveTo ==
    [idle |-> {"idle", "LOCKING", "FAILED"},
     LOCKING |-> {"LOCKING", "RESERVED", "FAILED"},
     RESERVED |-> {"RESERVED", "UPDATING", "FAILED"},
     UPDATING |-> {"UPDATING", "INSERTING", "FAILED"},
     INSERTING |-> {"INSERTING", "COMMITTING", "FAILED"},
     COMMITTING |-> {"COMMITTING", "DONE", "FAILED"},
     DONE |-> {"DONE"},
     FAILED |-> {"FAILED"}]

OrderStatesInOrder ==
    \A t \in Tx :
        (kind[t] = "order" \/ kind'[t] = "order") => pc'[t] \in OrderMayMoveTo[pc[t]]

\* order t has written, or committed, an inventory row, a log row or an order row
HasWritten(t) ==
    \/ txInventory[t] # NoRows \/ txLog[t] # <<>> \/ txOrder[t] # NoOrder
    \/ \E l \in inventoryLog : l.id[1] = t
    \/ \E o \in orders : o.orderId = t

\* the allocation of order t has succeeded and its shipping cost is allowed
AllocatedAndValidated(t) ==
    /\ pc[t] \in {"UPDATING", "INSERTING", "COMMITTING", "DONE"}
    /\ allocationResult(t).error = "none"
    /\ calculateTotalShippingCost(allocationResult(t).allocatedOrderLines)
          <= maxAllowedShippingCost(totals(t).overallTotalPriceCents
                                    - totals(t).overallTotalDiscountCents)

\* order t has inserted, or committed, its order row
HasInsertedOrder(t) == txOrder[t] # NoOrder \/ \E o \in orders : o.orderId = t

\* the log rows order t has written or committed
WrittenLogIds(t) ==
    {txLog[t][i].id : i \in 1..Len(txLog[t])} \cup {l.id : l \in {k \in inventoryLog : k.id[1] = t}}

NoWriteBeforeValidation ==
    \A t \in Tx :
        kind[t] = "order" =>
            /\ HasWritten(t) => AllocatedAndValidated(t)
            /\ HasInsertedOrder(t) =>
                  WrittenLogIds(t) = {<<t, j>> : j \in 1..Len(updates(t))}

C28_OrderStateMachine == [][OrderStatesInOrder]_vars /\ []NoWriteBeforeValidation

\* an order has committed its decrements and its order row while another
\* one has failed
C28_Witness ==
    \E t, u \in Tx :
        /\ kind[t] = "order" /\ pc[t] = "DONE" /\ HasInsertedOrder(t)
        /\ Cardinality(WrittenLogIds(t)) = 2
        /\ kind[u] = "order" /\ pc[u] = "FAILED"



(***************************************************************************)
(* C29: under fair scheduling every order attempt and feasibility check    *)
(* that acquires inventory row locks eventually reaches DONE or FAILED and *)
(* releases all its locks, so concurrent requests with overlapping         *)
(* products all terminate: no request waits forever, and no two requests   *)
(* deadlock on each other's row locks.                                     *)
(***************************************************************************)
\* the next step of t waits for nothing: only the locked read waits, for
\* the rows another request holds, and the later steps of a request write
\* rows it holds itself
CanProceed(t) == pc[t] = "LOCKING" => forUpdateGranted(t, rowsToLock(t))

\* t and u each hold a row lock the locked read of the other waits for
Deadlocked(t, u) == t # u /\ waitsFor(t, u) /\ waitsFor(u, t)

\* as a property of every reachable state, which a finite run refutes: a
\* request in its transaction can take its next step, or waits for a request
\* that can take its own and so, scheduled fairly, ends and lets the locks
\* go; and no two requests wait for each other
C29_TerminatesWithoutDeadlock ==
    /\ \A t \in Tx :
          InTransaction(t) =>
              CanProceed(t) \/ \E u \in Tx \ {t} : waitsFor(t, u) /\ CanProceed(u)
    /\ \A t, u \in Tx : ~Deadlocked(t, u)
    /\ \A t \in Tx : Finished(t) => \A r \in Rows : lockedBy[r] # t


(***************************************************************************)
(* C30: a checkFeasibility that runs concurrently with createWalkInOrder   *)
(* calls on overlapping products computes its result from a consistent     *)
(* inventory snapshot: the quantities it allocates against are those of a  *)
(* state in which each concurrent order is either fully committed or not   *)
(* applied at all, never one with only some of an order's decrements.      *)
(***************************************************************************)
\* units the update items of order o take from row r
RECURSIVE DecrementOfFirst(_, _, _)
DecrementOfFirst(ups, n, r) ==
    IF n = 0 THEN 0
    ELSE (IF <<ups[n].productId, ups[n].warehouseId>> = r
          THEN ups[n].quantityToDecrement ELSE 0) + DecrementOfFirst(ups, n - 1, r)

\* the orders applied in full: those that have committed
CommittedOrders == {o \in Tx : kind[o] = "order" /\ pc[o] = "DONE"}

\* units the request numbered o or lower have taken from row r, if committed
RECURSIVE TakenByCommitted(_, _)
TakenByCommitted(o, r) ==
    IF o = 0 THEN 0
    ELSE (IF o \in CommittedOrders
          THEN DecrementOfFirst(updates(o), Len(updates(o)), r) ELSE 0)
         + TakenByCommitted(o - 1, r)

\* the quantity of row r with every committed order applied in full and no
\* other order applied at all
ConsistentQuantity(r) == InitialInventory[r] - TakenByCommitted(NumTx, r)

\* the step of t is the locked read of a feasibility check
FeasibilityReads(t) ==
    kind[t] = "feasibility" /\ pc[t] = "LOCKING" /\ pc'[t] = "RESERVED"

SnapshotIsConsistent(t) ==
    /\ DOMAIN currentInventoryByWarehouse'[t] = {<<r[2], r[1]>> : r \in rowsToLock(t)}
    /\ \A r \in rowsToLock(t) :
          currentInventoryByWarehouse'[t][<<r[2], r[1]>>] = ConsistentQuantity(r)

C30_FeasibilityReadsConsistentSnapshot ==
    [][\A t \in Tx : FeasibilityReads(t) => SnapshotIsConsistent(t)]_vars

\* a feasibility check has read the stock left by a committed order of two
\* decrements, both on rows of the products it asks for
C30_Witness ==
    \E t, o \in Tx :
        /\ kind[t] = "feasibility" /\ pc[t] \in {"RESERVED", "COMMITTING"}
        /\ o \in CommittedOrders /\ o < t
        /\ Len(updates(o)) = 2
        /\ \A i \in 1..2 :
              LET r == <<updates(o)[i].productId, updates(o)[i].warehouseId>>
              IN /\ r \in rowsToLock(t)
                 /\ currentInventoryByWarehouse[t][<<r[2], r[1]>>] < InitialInventory[r]


(***************************************************************************)
(* C31: performInventoryAllocation is deterministic: two runs on identical *)
(* priced products, ranked warehouse list, inventory snapshot and          *)
(* reservation snapshot give identical allocation lines in identical       *)
(* order, or the identical failure; the warehouses are visited exactly in  *)
(* the order of the list given, each at most once per product.             *)
(***************************************************************************)
BothRunsReturned == call.fn = "performInventoryAllocation" /\ "again" \in DOMAIN returned

\* the places, in the ranked list of the call, of the warehouses of the
\* lines of product p in a result, in the order of the lines
RanksOfLines(res, p) ==
    LET lines == SelectSeq(res.allocatedOrderLines, LAMBDA line : line.productId = p)
    IN [i \in 1..Len(lines) |-> RankOf(lines[i].warehouseId)]

\* the products of the lines of a result, in the order of the lines
ProductsOfLines(res) ==
    [i \in 1..Len(res.allocatedOrderLines) |-> res.allocatedOrderLines[i].productId]

\* place of product p among the entries of the priced products
PlaceOf(p) ==
    CHOOSE i \in 1..Len(call.productDetailsMap.keys) : call.productDetailsMap.keys[i] = p

VisitedInListOrder(res) ==
    /\ \A k \in 1..Len(call.productDetailsMap.keys) :
          LET ranks == RanksOfLines(res, call.productDetailsMap.keys[k])
          IN \A i, j \in 1..Len(ranks) : i < j => ranks[i] < ranks[j]
    /\ LET ps == ProductsOfLines(res)
       IN \A i, j \in 1..Len(ps) : i < j => PlaceOf(ps[i]) <= PlaceOf(ps[j])
    /\ res.inventoryUpdates =
          [i \in 1..Len(res.allocatedOrderLines) |->
              [productId |-> res.allocatedOrderLines[i].productId,
               warehouseId |-> res.allocatedOrderLines[i].warehouseId,
               quantityToDecrement |-> res.allocatedOrderLines[i].allocatedQuantity]]

RankerReturned ==
    /\ call.fn = "getWarehousesSortedByShippingCost"
    /\ returned # NoReturn
    /\ returned.error = "none"

\* place of warehouse w among the rows retrieved
RetrievedAt(w) ==
    CHOOSE i \in 1..Len(call.allWarehouses) : call.allWarehouses[i].id = w

C32_RankedOncePerWarehouseStable ==
    RankerReturned =>
        LET ranked == returned.warehouses
            rows == call.allWarehouses
        IN /\ Len(ranked) = Len(rows)
           /\ \A i \in 1..Len(rows) :
                 Cardinality({k \in 1..Len(ranked) : ranked[k].warehouseId = rows[i].id}) = 1
           /\ \A k \in 1..Len(ranked) :
                 LET row == rows[RetrievedAt(ranked[k].warehouseId)]
                 IN /\ 2 * 10 * ranked[k].shippingCostCentsPerKg
                          <= 2 * distanceTenthsKm(row.latitude, call.shippingAddrLatitude)
                                 * SHIPPING_COST_CENTS_PER_KG_PER_KM + 10
                    /\ 2 * 10 * ranked[k].shippingCostCentsPerKg
                          > 2 * distanceTenthsKm(row.latitude, call.shippingAddrLatitude)
                                 * SHIPPING_COST_CENTS_PER_KG_PER_KM - 10
                    /\ row.latitude = call.shippingAddrLatitude
                          => ranked[k].shippingCostCentsPerKg = 0
           /\ \A k, l \in 1..Len(ranked) :
                 k < l =>
                    /\ ranked[k].shippingCostCentsPerKg <= ranked[l].shippingCostCentsPerKg
                    /\ ranked[k].shippingCostCentsPerKg = ranked[l].shippingCostCentsPerKg
                          => RetrievedAt(ranked[k].warehouseId)
                                < RetrievedAt(ranked[l].warehouseId)

\* three warehouses retrieved as w3, w1, w2: w3 is the farthest and comes
\* last, w1 is at the destination, w2 is close enough to cost 0 as well and
\* stays behind w1
C32_Witness ==
    /\ RankerReturned
    /\ call.allWarehouses = <<[id |-> "w3", latitude |-> 105],
                              [id |-> "w1", latitude |-> 0],
                              [id |-> "w2", latitude |-> 4]>>
    /\ call.shippingAddrLatitude = 0
    /\ returned.warehouses = <<[warehouseId |-> "w1", shippingCostCentsPerKg |-> 0],
                               [warehouseId |-> "w2", shippingCostCentsPerKg |-> 0],
                               [warehouseId |-> "w3", shippingCostCentsPerKg |-> 11]>>


(***************************************************************************)
(* C33: the reserved quantity used for a (warehouse, product) is the sum   *)
(* of the reservation-line quantities over exactly the reservations whose  *)
(* status is ACTIVE and whose expiresAt is later than the time of the      *)
(* read; lines of EXPIRED, CONSUMED or RELEASED reservations, and of       *)
(* ACTIVE reservations already past expiresAt, contribute 0.               *)
(***************************************************************************)
ReservedReadReturned ==
    /\ call.fn = "getReservedInventoryByWarehouseForProducts"
    /\ returned # NoReturn

\* the reservation lines of product p at warehouse w that are ACTIVE and
\* expire later than time
ActiveLinesAt(time, w, p) ==
    {r \in call.reservations : /\ r.status = "ACTIVE"
                               /\ r.expiresAt > time
                               /\ r.warehouseId = w
                               /\ r.productId = p}

C33_ReservedIsActiveUnexpiredSum ==
    ReservedReadReturned =>
        \A w \in WarehouseIds, p \in call.productIds :
            Lookup(returned.reservedInventoryByWarehouse, w, p)
                = SumQuantity(ActiveLinesAt(returned.readAt, w, p))

\* what does hold: the reservations are judged at the start time of the
\* transaction
ReservedIsSumAtTransactionStart ==
    ReservedReadReturned =>
        \A w \in WarehouseIds, p \in call.productIds :
            Lookup(returned.reservedInventoryByWarehouse, w, p)
                = SumQuantity(ActiveLinesAt(call.transactionStartedAt, w, p))


(***************************************************************************)
(* C34: once an order is committed, its Order row, its OrderLine rows      *)
(* (with the unitPriceCents and discountPercentage applied at order time)  *)
(* and its InventoryLog rows are never updated or deleted by any later     *)
(* operation: later successful orders, failed orders and feasibility       *)
(* checks leave them unchanged.                                            *)
(***************************************************************************)
\* every committed row is still there, and no row of the same key differs
\* from it
CommittedRowsKept ==
    /\ \A o \in orders :
          /\ o \in orders'
          /\ \A n \in orders' : n.orderId = o.orderId => n = o
    /\ \A l \in orderLines :
          /\ l \in orderLines'
          /\ \A n \in orderLines' : n.orderId = l.orderId /\ n.lineNo = l.lineNo => n = l
    /\ \A g \in inventoryLog :
          /\ g \in inventoryLog'
          /\ \A n \in inventoryLog' : n.id = g.id => n = g

C34_CommittedOrderRowsImmutable == [][CommittedRowsKept]_vars

\* the first order is committed with its lines and log rows, and a second
\* order has been committed after it or before it
C34_Witness ==
    /\ pc[1] = "DONE" /\ kind[1] = "order"
    /\ pc[2] = "DONE" /\ kind[2] = "order"
    /\ Cardinality(orders) = 2
    /\ \A t \in Tx : /\ \E l \in orderLines : l.orderId = t
                     /\ \E g \in inventoryLog : g.referenceId = t


(***************************************************************************)
(* C35: for every committed order the persisted header agrees with its     *)
(* lines and with the response: totalPriceCents is the sum over its order  *)
(* lines of quantity x unitPriceCents, and the totalPriceCents,            *)
(* discountCents and shippingCostCents returned to the caller equal the    *)
(* values stored in the Order row.                                         *)
(***************************************************************************)
RECURSIVE SumLineAmounts(_)
SumLineAmounts(lines) ==
    IF lines = {} THEN 0
    ELSE LET l == CHOOSE x \in lines : TRUE
         IN l.quantity * l.unitPriceCents + SumLineAmounts(lines \ {l})

LinesOfOrder(o) == {l \in orderLines : l.orderId = o.orderId}

\* the request that created the committed order o has returned
ReturnedTo(o) == {t \in Tx : pc[t] = "DONE" /\ kind[t] = "order" /\ orderIdOf(t) = o.orderId}

C35_HeaderAgreesWithLinesAndResponse ==
    /\ \A o \in orders :
          /\ o.totalPriceCents = SumLineAmounts(LinesOfOrder(o))
          /\ \A t \in ReturnedTo(o) :
                /\ result[t].orderId = o.orderId
                /\ result[t].totalPriceCents = o.totalPriceCents
                /\ result[t].discountCents = o.discountCents
                /\ result[t].shippingCostCents = o.shippingCostCents
    /\ \A t \in Tx :
          pc[t] = "DONE" /\ kind[t] = "order" => \E o \in orders : o.orderId = orderIdOf(t)

\* a committed order of 2 x p1 with a discount, taken from two warehouses,
\* has returned
C35_Witness ==
    \E o \in orders :
        /\ ReturnedTo(o) # {}
        /\ o.totalPriceCents = 200
        /\ o.discountCents = 20
        /\ o.shippingCostCents = 24
        /\ Cardinality(LinesOfOrder(o)) = 2


(***************************************************************************)
(* C36: a single allocation result contains at most one allocation line    *)
(* and at most one inventory update per (product, warehouse) pair, so one  *)
(* order never decrements the same inventory row twice, and the amount it  *)
(* decrements of a row never exceeds what the locked read showed for that  *)
(* row.                                                                    *)
(***************************************************************************)
\* order t has an allocation it acts on
Allocated(t) == kind[t] = "order" /\ pc[t] \in {"UPDATING", "INSERTING", "COMMITTING", "DONE"}

OncePerProductAndWarehouse(seq) ==
    \A i, j \in 1..Len(seq) :
        i # j => <<seq[i].productId, seq[i].warehouseId>>
                    # <<seq[j].productId, seq[j].warehouseId>>

\* the log rows order t has written, committed or not
LogRowsOfOrder(t) ==
    {g \in inventoryLog : g.referenceId = orderIdOf(t)}
        \cup {txLog[t][i] : i \in 1..Len(txLog[t])}

C36_OneLinePerRowWithinLockedRead ==
    \A t \in Tx :
        Allocated(t) =>
            LET a == allocationResult(t) IN
            /\ OncePerProductAndWarehouse(a.allocatedOrderLines)
            /\ OncePerProductAndWarehouse(a.inventoryUpdates)
            /\ \A i \in 1..Len(a.inventoryUpdates) :
                  a.inventoryUpdates[i].quantityToDecrement
                      <= Lookup(currentInventoryByWarehouse[t],
                                a.inventoryUpdates[i].warehouseId,
                                a.inventoryUpdates[i].productId)
            /\ \A g, h \in LogRowsOfOrder(t) :
                  g.productId = h.productId /\ g.warehouseId = h.warehouseId => g = h
            /\ \A g \in LogRowsOfOrder(t) :
                  -g.quantityChange
                      <= Lookup(currentInventoryByWarehouse[t], g.warehouseId, g.productId)

\* an order of two items has decremented two rows, each once, one of them
\* by all the locked read showed for it
C36_Witness ==
    \E t \in Tx :
        /\ Allocated(t)
        /\ pc[t] = "DONE"
        /\ Len(request[t].items) = 2
        /\ Len(allocationResult(t).inventoryUpdates) = 2
        /\ Cardinality(LogRowsOfOrder(t)) = 2
        /\ \E g \in LogRowsOfOrder(t) :
              -g.quantityChange
                  = Lookup(currentInventoryByWarehouse[t], g.warehouseId, g.productId)


(***************************************************************************)
(* C37: when a request lists the same product id in more than one item,    *)
(* pricing yields exactly one entry for that product, carrying the         *)
(* quantity of the last such item, and the discount tier, the totals, the  *)
(* allocation and the inventory decrement are all computed from that       *)
(* single quantity; the quantities of the items are not summed.            *)
(***************************************************************************)
\* the product is named by more than one item of the request of t
ListedTwice(t, p) ==
    \E i, j \in 1..Len(request[t].items) :
        i # j /\ request[t].items[i].productId = p /\ request[t].items[j].productId = p

\* the quantity of the last item of the request of t that names p
QuantityOfLastItem(t, p) ==
    LET items == request[t].items
        last == CHOOSE i \in 1..Len(items) :
                    /\ items[i].productId = p
                    /\ \A j \in 1..Len(items) : items[j].productId = p => j <= i
    IN items[last].quantity

\* the percentage of the highest tier of p that quantity q reaches, 0 if none
TierOf(p, q) ==
    LET reached == {d \in volumeDiscounts : d.productId = p /\ d.threshold <= q}
    IN IF reached = {} THEN 0
       ELSE (CHOOSE d \in reached : \A e \in reached : e.threshold <= d.threshold)
                .discountPercentage

RECURSIVE SumLineQuantity(_)
SumLineQuantity(rows) ==
    IF rows = {} THEN 0
    ELSE LET r == CHOOSE x \in rows : TRUE IN r.quantity + SumLineQuantity(rows \ {r})

RECURSIVE SumDecrements(_)
SumDecrements(rows) ==
    IF rows = {} THEN 0
    ELSE LET r == CHOOSE x \in rows : TRUE IN (-r.quantityChange) + SumDecrements(rows \ {r})

Priced(t) ==
    /\ kind[t] \in {"order", "feasibility"}
    /\ pc[t] # "idle"
    /\ productDetailsMap(t).error = "none"

C37_LastQuantityOfDuplicateWins ==
    \A t \in Tx : \A p \in Products :
        Priced(t) /\ ListedTwice(t, p) =>
            LET m == productDetailsMap(t)
                q == QuantityOfLastItem(t, p)
            IN /\ Cardinality({k \in 1..Len(m.keys) : m.keys[k] = p}) = 1
               /\ m.details[p].requestedQuantity = q
               /\ m.details[p].discountPercentage = TierOf(p, q)
               /\ m.details[p].totalProductCostCents = productRow[p].unitPriceCents * q
               /\ Len(m.keys) = 1 =>
                     totals(t).overallTotalPriceCents = productRow[p].unitPriceCents * q
               /\ Allocated(t) =>
                     LET ups == allocationResult(t).inventoryUpdates
                     IN DecrementOfFirst(ups, Len(ups), <<p, "w1">>)
                            + DecrementOfFirst(ups, Len(ups), <<p, "w2">>) = q
               /\ pc[t] = "DONE" /\ kind[t] = "order" =>
                     /\ SumLineQuantity({l \in orderLines :
                                         l.orderId = orderIdOf(t) /\ l.productId = p}) = q
                     /\ SumDecrements({g \in inventoryLog :
                                         g.referenceId = orderIdOf(t) /\ g.productId = p}) = q

\* an order listing p1 twice, 2 units and then 1, is committed: one unit
\* is taken, at no discount
C37_Witness ==
    \E t \in Tx :
        /\ pc[t] = "DONE" /\ kind[t] = "order"
        /\ request[t].items = <<[productId |-> "p1", quantity |-> 2],
                                [productId |-> "p1", quantity |-> 1]>>
        /\ result[t].totalPriceCents = 100
        /\ result[t].discountCents = 0
        /\ SumDecrements({g \in inventoryLog : g.referenceId = orderIdOf(t)}) = 1

=============================================================================
